---- MODULE Spec2Model ----
(***************************************************************************)
(* Session store, move evaluation and severity classification of the      *)
(* chess coach: live_sessions.py, stockfish_engine.py, llm_coach.py.       *)
(*                                                                         *)
(* The chess rules come from the python-chess library, which the program   *)
(* only calls.  They are represented by a finite fragment of chess around  *)
(* the fool's mate 1. f3 e5 2. g4 Qh4#: every position of the fragment is  *)
(* a position of chess, every move of the fragment is legal there, and the *)
(* fragment's only position without a move is the checkmate.               *)
(***************************************************************************)
EXTENDS Integers, Sequences, FiniteSets, TLC

(***************************************************************************)
(* Bounds of the model.                                                    *)
(***************************************************************************)
\* number of session identifiers uuid4 can hand out in one run
MaxSessions == 2
\* number of times the clock of the shared store advances in one run
MaxTicks == 2
\* largest centipawn loss (in hundredths of a pawn) given to the classifier
MaxLoss == 160
MaxPlies == 3
\* how many sessions the clients of a deployment create
MaxApiSessions == 1
\* how many moves the board of such a session holds when a move is requested
MaxApiPlies == 1
\* how many engine subprocesses can be alive in a deployment at once
MaxEngines == 3
\* calls of coach_move_with_llm made by one process
MaxCalls == 3

(***************************************************************************)
(* python-chess: moves, positions, boards.                                 *)
(***************************************************************************)
WhiteMoves == {"f2f3", "g2g4"}
BlackMoves == {"e7e5", "d8h4"}
NullMove == "0000"
NoMove == "none"

\* chess.Board().fen() decoded: the moves played, the side to move
\* (chess.WHITE is True) and the full-move number
StartPos == [played |-> {}, turn |-> TRUE, fullmove |-> 1]
AfterF3Pos == [played |-> {"f2f3"}, turn |-> FALSE, fullmove |-> 1]

legal_moves(pos) ==
    {m \in (IF pos.turn THEN WhiteMoves ELSE BlackMoves) :
        /\ m \notin pos.played
        /\ (m = "d8h4" => "e7e5" \in pos.played)}

\* a board that never reports the end of the game (C19 fails on it)
is_game_over_Never(pos) == FALSE

is_game_over(pos) == legal_moves(pos) = {}

\* the position after a move (a null move only passes the turn)
PosAfter(pos, m) ==
    [played |-> IF m = NullMove THEN pos.played ELSE pos.played \cup {m},
     turn |-> ~pos.turn,
     fullmove |-> IF pos.turn THEN pos.fullmove ELSE pos.fullmove + 1]

\* a chess.Board: the position, the moves pushed on it and the positions
\* saved by push for pop to restore
NewBoard(pos) == [pos |-> pos, move_stack |-> <<>>, saved |-> <<>>]

push(board, m) ==
    [pos |-> PosAfter(board.pos, m),
     move_stack |-> Append(board.move_stack, m),
     saved |-> Append(board.saved, board.pos)]

pop(board) ==
    [pos |-> board.saved[Len(board.saved)],
     move_stack |-> SubSeq(board.move_stack, 1, Len(board.move_stack) - 1),
     saved |-> SubSeq(board.saved, 1, Len(board.saved) - 1)]

\* board.fen(): the position as text; chess.Board(fen) reads it back into a
\* board with an empty move stack
fen(board) ==
    <<board.pos.played, IF board.pos.turn THEN "w" ELSE "b", board.pos.fullmove>>

BoardFromFen(f) ==
    NewBoard([played |-> f[1], turn |-> (f[2] = "w"), fullmove |-> f[3]])

STARTING_FEN == <<{}, "w", 1>>
AFTER_F3_FEN == <<{"f2f3"}, "b", 1>>
MATE_FEN == <<{"f2f3", "e7e5", "g2g4", "d8h4"}, "w", 3>>
NoFen == <<{}, "-", 0>>

\* board.san(move) and move.uci()
san(board, m) ==
    CASE m = "f2f3" -> "f3"
      [] m = "g2g4" -> "g4"
      [] m = "e7e5" -> "e5"
      [] m = "d8h4" -> IF is_game_over(PosAfter(board.pos, m)) THEN "Qh4#" ELSE "Qh4"
      [] OTHER -> "--"

\* the move texts a caller may send, and len(text) of each
MoveTexts == {"f3", "g2g4", "e5", "d8h4", "Qh4#", "0000", "zz"}

TextLen(text) ==
    CASE text \in {"f2f3", "g2g4", "e7e5", "d8h4", "Qh4#", "0000"} -> 4
      [] OTHER -> 2

\* chess.Move.from_uci(text): the move, or NoMove when it raises
from_uci(text) ==
    IF text \in WhiteMoves \cup BlackMoves \cup {NullMove} THEN text ELSE NoMove

\* the texts parse_san reads as move m: its SAN with or without the mate mark,
\* and its fully written coordinates for a pawn move
SanTexts(m) ==
    CASE m = "f2f3" -> {"f3", "f2f3"}
      [] m = "g2g4" -> {"g4", "g2g4"}
      [] m = "e7e5" -> {"e5", "e7e5"}
      [] m = "d8h4" -> {"Qh4", "Qh4#"}
      [] OTHER -> {}

\* the texts that name move m to a caller: its UCI form and its SAN forms
MoveNames(m) == {m} \cup SanTexts(m)

\* board.parse_san(text): the legal move written so, the null move for
\* "0000" and "--", or NoMove when it raises
parse_san(board, text) ==
    LET hits == {m \in legal_moves(board.pos) : text \in SanTexts(m)}
    IN  IF text \in {"0000", "--"} THEN NullMove
        ELSE IF hits # {} THEN CHOOSE m \in hits : TRUE
        ELSE NoMove

(***************************************************************************)
(* stockfish_engine.py: StockfishAnalyzer.                                 *)
(* Python's None is the empty set and a present value v is {v}.            *)
(***************************************************************************)
None == {}
Some(v) == {v}
Val(o) == CHOOSE v \in o : TRUE

\* what engine.analyse does on one call: it raises (the engine crashed, timed
\* out or sent an unparsable line), it returns info objects without a usable
\* score, or it returns a list of infos, each a white-relative score and a
\* principal variation
Raises == [kind |-> "raise"]
Malformed == [kind |-> "malformed"]
Infos(list) == [kind |-> "infos", infos |-> list]
CpScore(c) == [cp |-> Some(c), mate |-> None]
MateScore(n) == [cp |-> None, mate |-> Some(n)]

\* lines 110-125: the SAN of the first ten moves of a variation, cut at the
\* first move board.san cannot render
RECURSIVE LineSan(_, _, _)
LineSan(pos, pv, j) ==
    IF j > Len(pv) \/ j > 10 THEN <<>>
    ELSE IF pv[j] \notin legal_moves(pos) THEN <<>>
    ELSE <<san([pos |-> pos], pv[j])>> \o LineSan(PosAfter(pos, pv[j]), pv, j + 1)

\* lines 101-134: one MultiPV entry
PvEntry(board, info) ==
    LET line == LineSan(board.pos, info.pv, 1)
    IN  [move_san |-> IF Len(line) > 0 THEN line[1] ELSE NoMove,
         move_uci |-> IF Len(info.pv) > 0 THEN info.pv[1] ELSE NoMove,
         cp |-> info.score.cp,
         mate |-> info.score.mate,
         line_san |-> line]

\* stands where a call that raised returns nothing
NoResult == [absent |-> TRUE]

ErrorEvaluation ==
    [score |-> [cp |-> Some(0), mate |-> None],
     best_move |-> NoMove, best_move_san |-> NoMove,
     pv |-> <<>>, pv_san |-> <<>>, error |-> "error"]

\* the handler of line 159 letting the exception through (C10 fails on it)
OnAnalysisError_Propagates == [raised |-> "EngineError", eval |-> [absent |-> TRUE]]

\* the handler of line 159: what analyze_position does with an exception
\* raised inside its try block
OnAnalysisError == [raised |-> "none", eval |-> ErrorEvaluation]

\* analyze_position(board) on an analyzer whose engine handle is `engine`
\* (FALSE: never started), the engine answering `ans`.  The result names the
\* exception that leaves the call ("none": it returns) and the evaluation.
analyze_position(engine, board, ans) ==
    IF ~engine THEN [raised |-> "RuntimeError", eval |-> NoResult]
    ELSE IF ans.kind # "infos" THEN OnAnalysisError
    ELSE LET entries == [i \in 1..Len(ans.infos) |-> PvEntry(board, ans.infos[i])]
         IN  [raised |-> "none",
              eval |-> [score |-> IF Len(entries) > 0
                                  THEN [cp |-> entries[1].cp, mate |-> entries[1].mate]
                                  ELSE [cp |-> None, mate |-> None],
                        best_move |-> IF Len(entries) > 0 THEN entries[1].move_uci ELSE NoMove,
                        best_move_san |-> IF Len(entries) > 0 THEN entries[1].move_san ELSE NoMove,
                        pv |-> entries]]

\* compare_move without the pop of line 203 (C8 fails on it)
RestorePosition_Skipped(board) == board

\* line 203: board.pop() gives the caller's position back
RestorePosition(board) == pop(board)

\* a loss taken from white's side whoever moved (C30 fails on it)
EvalLossCp_WhiteRelative(mover_is_white, eval_before, eval_after) ==
    IF eval_before.score.cp # None /\ eval_after.score.cp # None
    THEN Val(eval_before.score.cp) - Val(eval_after.score.cp)
    ELSE 0

\* lines 205-220: the loss of the mover in centipawns, 0 when either top
\* score is a mate score
EvalLossCp(mover_is_white, eval_before, eval_after) ==
    LET before_cp_white == eval_before.score.cp
        after_cp_white == eval_after.score.cp
    IN  IF before_cp_white # None /\ after_cp_white # None
        THEN IF mover_is_white
             THEN Val(before_cp_white) - Val(after_cp_white)
             ELSE (0 - Val(before_cp_white)) - (0 - Val(after_cp_white))
        ELSE 0

\* compare_move(board, move_played), the engine answering a1 to the analysis
\* before the move and a2 to the one after it.  `board` is the caller's board
\* as the call leaves it; eval_loss is in hundredths of a pawn.
compare_move(engine, board, move_played, a1, a2) ==
    LET r1 == analyze_position(engine, board, a1)
        pushed == push(board, move_played)
        r2 == analyze_position(engine, pushed, a2)
        restored == RestorePosition(pushed)
        best_move == r1.eval.best_move
    IN  IF r1.raised # "none"
        THEN [raised |-> r1.raised, board |-> board, out |-> NoResult]
        ELSE IF r2.raised # "none"
        THEN [raised |-> r2.raised, board |-> pushed, out |-> NoResult]
        ELSE [raised |-> "none",
              board |-> restored,
              out |-> [move_played |-> move_played,
                       move_played_san |-> san(restored, move_played),
                       best_move |-> best_move,
                       best_move_san |-> r1.eval.best_move_san,
                       eval_before |-> r1.eval,
                       eval_after |-> r2.eval,
                       eval_loss |-> EvalLossCp(restored.pos.turn, r1.eval, r2.eval),
                       is_best |-> (best_move # NoMove /\ best_move = move_played)]]

\* StockfishAnalyzer.__enter__: popen_uci starts the engine process, then
\* configure sets its threads; `running` counts the processes alive when it
\* leaves
__enter__(popen_ok, configure_ok) ==
    IF ~popen_ok THEN [raised |-> "EngineStartError", engine |-> FALSE, running |-> 0]
    ELSE IF ~configure_ok THEN [raised |-> "EngineError", engine |-> TRUE, running |-> 1]
    ELSE [raised |-> "none", engine |-> TRUE, running |-> 1]

\* StockfishAnalyzer.__exit__: quit the engine if there is one
__exit__(engine, running) == IF engine THEN 0 ELSE running

\* `with StockfishAnalyzer(...) as analyzer: body`: Python calls __exit__
\* only when __enter__ returned, whether the body raised or not
WithAnalyzer(popen_ok, configure_ok, body_raises) ==
    LET e == __enter__(popen_ok, configure_ok)
    IN  IF e.raised # "none"
        THEN [raised |-> e.raised, entered |-> FALSE, running |-> e.running]
        ELSE [raised |-> IF body_raises THEN "BodyError" ELSE "none", entered |-> TRUE,
              running |-> __exit__(e.engine, e.running)]

(***************************************************************************)
(* llm_coach.py: severity thresholds, in hundredths of a pawn.             *)
(***************************************************************************)
BestMax == 5
GoodMax == 20
InaccuracyMax == 50
MistakeMax == 150

Abs(x) == IF x < 0 THEN 0 - x ELSE x

\* the classifier without the abs() of line 62 (C9 fails on it)
severity_from_cp_loss_Signed(cp_loss) ==
    IF cp_loss <= BestMax THEN "best"
    ELSE IF cp_loss <= GoodMax THEN "good"
    ELSE IF cp_loss <= InaccuracyMax THEN "inaccuracy"
    ELSE IF cp_loss <= MistakeMax THEN "mistake"
    ELSE "blunder"

severity_from_cp_loss(cp_loss) ==
    LET cp == Abs(cp_loss)
    IN  IF cp <= BestMax THEN "best"
        ELSE IF cp <= GoodMax THEN "good"
        ELSE IF cp <= InaccuracyMax THEN "inaccuracy"
        ELSE IF cp <= MistakeMax THEN "mistake"
        ELSE "blunder"

\* the SAN texts of the lines below that hold a check ('+') or a mate ('#')
\* marker
Marked == {"Qh4+", "Qh4#"}

DrillBestMax == 12
DrillAltMax == 8

\* the Python slice list[:n]
Slice(list, n) == IF Len(list) <= n THEN list ELSE SubSeq(list, 1, n)

\* make_drills that tests the part of the main line it shows (C39 fails on it)
ForcingIn_Shown(best_line) ==
    \E i \in 1..Len(best_line) : i <= DrillBestMax /\ best_line[i] \in Marked

\* line 114: the main line is not empty and its text holds '+' or '#'
ForcingIn(best_line) ==
    Len(best_line) >= 1 /\ \E i \in 1..Len(best_line) : best_line[i] \in Marked

\* make_drills(move): the practice records of a move (lines 104-125)
make_drills(move) ==
    LET multipv == move.multipv
        best_line == IF multipv # <<>> THEN multipv[1].line_san ELSE <<>>
        alt == IF Len(multipv) > 1 THEN multipv[2].line_san ELSE <<>>
    IN  IF severity_from_cp_loss(move.cp_loss) \in {"mistake", "blunder", "inaccuracy"}
        THEN <<[fen |-> move.fen_before,
                side_to_move |-> move.side,
                objective |-> IF ForcingIn(best_line)
                              THEN "Convert advantage: find forcing line"
                              ELSE "Find the best continuation",
                best_line_san |-> Slice(best_line, DrillBestMax),
                alt_traps_san |-> Slice(alt, DrillAltMax)]>>
        ELSE <<>>

\* the timeouts the module reads from the environment, in seconds (defaults)
LLM_REQUEST_TIMEOUT_SECONDS == 8
LLM_TOTAL_TIMEOUT_SECONDS == 12

BasicMaxWords == 15
ExtendedMaxWords == 100

\* a text is the sequence of its whitespace-separated words
_truncate_words(words, max_words) ==
    IF Len(words) <= max_words THEN words ELSE SubSeq(words, 1, max_words)

\* rule_basic(move): cp_loss is kept in hundredths of a pawn
rule_basic(move) ==
    IF severity_from_cp_loss(move.cp_loss) \in {"best", "good"}
    THEN _truncate_words(<<"Solid", "move.", "Keep", "building", "your", "plan.">>,
                         BasicMaxWords)
    ELSE IF move.best_move_san # NoMove
    THEN _truncate_words(<<"Better", "was", move.best_move_san, "Consider", "the",
                           "threats.">>, BasicMaxWords)
    ELSE _truncate_words(<<"Missed", "stronger", "option.", "Improve", "piece",
                           "activity.">>, BasicMaxWords)

\* rule_extended(move): the main line shows at most eight moves; with no
\* line the full stop after it stands as a word of its own
rule_extended(move) ==
    LET best_line == IF move.multipv # <<>> THEN move.multipv[1].line_san ELSE <<>>
        shown == IF Len(best_line) > 8 THEN SubSeq(best_line, 1, 8) ELSE best_line
        why == IF move.cp_loss >= 50
               THEN <<"This", "line", "protects", "against", "threats", "and", "gains",
                      "a", "positional", "edge.">>
               ELSE <<"This", "improves", "piece", "activity", "and", "reduces",
                      "tactical", "weaknesses.">>
    IN  _truncate_words(<<"You", "played", move.san, "Engine", "prefers",
                          move.best_move_san, "Evaluation", "worsened", "by", "cp_loss",
                          "pawns.", "Main", "line:">>
                        \o (IF shown = <<>> THEN <<".">> ELSE shown) \o why,
                        ExtendedMaxWords)

\* a text of the answer is a sequence of words and single spaces; str.split()
\* gives its words
split(text) == SelectSeq(text, LAMBDA x : x # " ")
Words(n) == [i \in 1..n |-> "word"]

\* the JSON object of an answer: its texts (None: no such key) and its drills
LlmAnswer(basic, extended, drills) ==
    [kind |-> "answers", basic |-> basic, extended |-> extended, drills |-> drills]
LlmDrill(objective) ==
    [objective |-> objective, best_line_san |-> <<"e5">>, alt_traps_san |-> <<>>]

\* what the external text generator does once the credential is there: the
\* openai package cannot be imported, the client cannot be constructed, the
\* request raises, the service never answers, the answer is not a JSON object,
\* or the answer is an object: with a basic text of 0, 3 or 16 words and
\* nothing else, with a basic text of one space, with no basic text, a short
\* extended text and one drill without objective, or with an extended text of
\* 101 words and three drills
ExternalFailures ==
    {"import_fails", "client_fails", "request_fails", "never_answers", "not_object"}
LlmBasicWords == {0, 3, 16}
ExternalOutcomes ==
    {[kind |-> k, basic |-> None, extended |-> None, drills |-> <<>>] : k \in ExternalFailures}
    \cup {LlmAnswer(Some(Words(n)), None, <<>>) : n \in LlmBasicWords}
    \cup {LlmAnswer(Some(<<" ">>), None, <<>>),
          LlmAnswer(None, Some(Words(4)), <<LlmDrill(None)>>),
          LlmAnswer(Some(Words(3)), Some(Words(ExtendedMaxWords + 1)),
                    <<LlmDrill(Some("a")), LlmDrill(Some("b")), LlmDrill(Some("c"))>>)}

\* the process environment of a call: whether AI_API_KEY is set, and what the
\* external generator does
CoachEnvs == [key : BOOLEAN, ext : ExternalOutcomes]

\* the environments of the session managers' calls, one for each way the call
\* comes back to its caller: the rules, the language model, an exception
CoachOutcomes ==
    {[key |-> FALSE, ext |-> LlmAnswer(Some(Words(3)), None, <<>>)],
     [key |-> TRUE, ext |-> LlmAnswer(Some(Words(3)), None, <<>>)],
     [key |-> TRUE, ext |-> [kind |-> "client_fails", basic |-> None, extended |-> None,
                             drills |-> <<>>]]}

\* obj.get(key, default) or default: the default for a key that is missing
\* and for a value that is falsy (None, the empty text, the empty list)
GetOr(value, default) ==
    IF value = None THEN default ELSE IF Val(value) = <<>> THEN default ELSE Val(value)

\* _truncate_words on a text of the answer: its words are counted and the
\* text comes back stripped
Truncated(text, max_words) == _truncate_words(split(text), max_words)

\* lines 194-214: the object read from the answer with its texts cut to
\* their limits, its first two drills bound to the move, and source 'llm'
LlmObject(move, result, answer) ==
    LET drills == Slice(answer.drills, 2)
        normalized_drills ==
            [i \in 1..Len(drills) |->
                [fen |-> move.fen_before,
                 side_to_move |-> move.side,
                 objective |-> IF drills[i].objective \in {None, Some("")}
                               THEN "Find the best continuation"
                               ELSE Val(drills[i].objective),
                 best_line_san |-> drills[i].best_line_san,
                 alt_traps_san |-> drills[i].alt_traps_san]]
    IN  [basic |-> Truncated(GetOr(answer.basic, result.basic), BasicMaxWords),
         extended |-> Truncated(GetOr(answer.extended, result.extended), ExtendedMaxWords),
         drills |-> IF normalized_drills # <<>> THEN normalized_drills ELSE result.drills,
         tags |-> <<>>,
         source |-> "llm"]

\* lines 153-219: the import and the client are set up outside the try block;
\* the request names the model and the messages and carries no timeout, so a
\* service that never answers holds the call beyond the configured timeout
\* (returned FALSE); everything the request and the decoding of its answer
\* raise is caught and the rule-based result returned
ExternalStep(move, result, env) ==
    LET request == [model |-> "MODEL_NAME", timeout |-> None]
        obj == LlmObject(move, result, env.ext)
    IN  IF env.ext.kind \in {"import_fails", "client_fails"}
        THEN [raised |-> "CoachError", returned |-> TRUE, value |-> NoResult,
              requests |-> <<>>, logged |-> <<>>]
        ELSE IF env.ext.kind = "never_answers" /\ request.timeout = None
        THEN [raised |-> "none", returned |-> FALSE, value |-> NoResult,
              requests |-> <<request>>, logged |-> <<>>]
        ELSE IF env.ext.kind = "answers"
        THEN [raised |-> "none", returned |-> TRUE, value |-> obj,
              requests |-> <<request>>, logged |-> <<>>]
        ELSE [raised |-> "none", returned |-> TRUE, value |-> result,
              requests |-> <<request>>, logged |-> <<"fallback">>]

coach_move_with_llm_NoCredentialTest(move, use_llm, env) ==
    LET result == [basic |-> rule_basic(move), extended |-> rule_extended(move),
                   drills |-> make_drills(move), tags |-> <<>>, source |-> "rules"]
    IN  IF ~use_llm
        THEN [raised |-> "none", returned |-> TRUE, value |-> result, requests |-> <<>>,
              logged |-> <<>>]
        ELSE ExternalStep(move, result, env)

\* coach_move_with_llm(move, level, use_llm): a plain function that returns
\* the coaching dict (the tags of an answer are left out), from the rules or
\* from the language model, or raises; `logged` is what the call hands to
\* the log: a call of _log_missing_key, or the fallback warning
coach_move_with_llm(move, use_llm, env) ==
    LET result == [basic |-> rule_basic(move), extended |-> rule_extended(move),
                   drills |-> make_drills(move), tags |-> <<>>, source |-> "rules"]
    IN  IF ~use_llm
        THEN [raised |-> "none", returned |-> TRUE, value |-> result, requests |-> <<>>,
              logged |-> <<>>]
        ELSE IF ~env.key
        THEN [raised |-> "none", returned |-> TRUE, value |-> result, requests |-> <<>>,
              logged |-> <<"_log_missing_key">>]
        ELSE ExternalStep(move, result, env)

\* an await that hands on the value of the call (C23 fails on it)
\* `await x` on the value a call returned: x is the dict coach_move_with_llm
\* returned, which is not awaitable, so the await raises TypeError; an
\* exception raised by the call itself leaves first
Await_Resolves(r) == r

Await(r) ==
    IF r.raised # "none" THEN r ELSE [raised |-> "TypeError", value |-> NoResult]

Side(turn) == IF turn THEN "white" ELSE "black"

(***************************************************************************)
(* analysis_pipeline.py: analyze_pgn_to_feedback.                          *)
(***************************************************************************)
\* _safe_read_game: the game read from the PGN text, or None
_safe_read_game(pgn) == IF pgn.readable THEN Some(pgn.mainline) ELSE None

\* _side_stats(side) over moves_feedback: acpl is the mean of the absolute
\* losses, kept as their sum and their number; best_move_rate is a percentage
\* kept as numerator and denominator
_side_stats(moves_feedback, side) ==
    LET side_moves == SelectSeq(moves_feedback, LAMBDA m : m.side = side)
        SumAbs[i \in 0..Len(side_moves)] ==
            IF i = 0 THEN 0 ELSE SumAbs[i - 1] + Abs(side_moves[i].cp_loss)
        best_count == Len(SelectSeq(side_moves, LAMBDA m : m.severity \in {"best", "good"}))
    IN  [acpl |-> IF side_moves # <<>>
                  THEN Some([sum |-> SumAbs[Len(side_moves)], count |-> Len(side_moves)])
                  ELSE None,
         best_move_rate |-> IF side_moves # <<>>
                            THEN [num |-> best_count * 100, den |-> Len(side_moves)]
                            ELSE [num |-> 0, den |-> 1],
         mistakes |-> Len(SelectSeq(side_moves, LAMBDA m : m.severity = "mistake")),
         blunders |-> Len(SelectSeq(side_moves, LAMBDA m : m.severity = "blunder"))]

\* [i + base for i, m in enumerate(moves_feedback) if m is a mistake or a
\* blunder], from index i on
RECURSIVE CriticalFrom(_, _, _)
CriticalFrom(moves_feedback, i, base) ==
    IF i >= Len(moves_feedback) THEN <<>>
    ELSE (IF moves_feedback[i + 1].severity \in {"mistake", "blunder"}
          THEN <<i + base>> ELSE <<>>)
         \o CriticalFrom(moves_feedback, i + 1, base)

critical_positions_ZeroBased(moves_feedback) == CriticalFrom(moves_feedback, 0, 0)

critical_positions(moves_feedback) == CriticalFrom(moves_feedback, 0, 1)

\* lines 103-118: the summary (the openings header is left out)
Summary(moves_feedback) ==
    LET w == _side_stats(moves_feedback, "white")
        b == _side_stats(moves_feedback, "black")
    IN  [moves |-> moves_feedback,
         acpl_white |-> w.acpl, acpl_black |-> b.acpl,
         best_move_rate_white |-> w.best_move_rate,
         best_move_rate_black |-> b.best_move_rate,
         mistakes_white |-> w.mistakes, mistakes_black |-> b.mistakes,
         blunders_white |-> w.blunders, blunders_black |-> b.blunders,
         critical_positions |-> critical_positions(moves_feedback)]

\* lines 37-39 and 43-66: the payload of a ply played on `board`
Payload(board, board_after, move, move_no, eval_before, comparison) ==
    LET mover_is_white == board.pos.turn
        before_cp_white == eval_before.score.cp
        after_cp_white == comparison.eval_after.score.cp
        Mover(cp) == IF mover_is_white \/ cp = None THEN cp ELSE Some(0 - Val(cp))
    IN  [move_no |-> (move_no \div 2) + 1,
         side |-> Side(board.pos.turn),
         san |-> san(board, move),
         uci |-> move,
         fen_before |-> fen(board),
         fen_after |-> fen(board_after),
         cp_before |-> Mover(before_cp_white),
         cp_after |-> Mover(after_cp_white),
         cp_loss |-> comparison.eval_loss,
         severity |-> severity_from_cp_loss(comparison.eval_loss),
         best_move_san |-> eval_before.best_move_san,
         multipv |-> eval_before.pv]

\* lines 71-77: payload.update with the coach's texts
Updated(payload, coach) ==
    [k \in DOMAIN payload \cup {"basic", "extended", "source"} |->
        IF k \in DOMAIN payload THEN payload[k] ELSE coach[k]]

RECURSIVE MainlineLoop(_, _, _, _, _)
\* lines 70-81 of a ply: the await, the append, the count and the cap
Coached(board, rest, move_no, moves_feedback, run, payload, coach) ==
    IF coach.raised # "none"
    THEN [raised |-> coach.raised, moves |-> moves_feedback]
    ELSE IF run.max_plies # None /\ move_no + 1 >= Val(run.max_plies)
    THEN [raised |-> "none", moves |-> Append(moves_feedback, Updated(payload, coach.value))]
    ELSE MainlineLoop(board, Tail(rest), move_no + 1,
                      Append(moves_feedback, Updated(payload, coach.value)), run)

\* lines 68-70 of a ply: whether the language model is asked, and the call
Analysed(board, rest, move_no, moves_feedback, run, payload) ==
    Coached(board, rest, move_no, moves_feedback, run, payload,
            Await(coach_move_with_llm(payload,
                                      run.use_llm /\ (run.llm_mode = "all"
                                          \/ payload.severity \in {"mistake", "blunder"}),
                                      run.env)))

\* lines 42-66 of a ply: the push and the payload
Evaluated(board, rest, move_no, moves_feedback, run, eval_before, comparison) ==
    IF eval_before.raised # "none"
    THEN [raised |-> eval_before.raised, moves |-> moves_feedback]
    ELSE IF comparison.raised # "none"
    THEN [raised |-> comparison.raised, moves |-> moves_feedback]
    ELSE Analysed(push(comparison.board, Head(rest)), rest, move_no, moves_feedback, run,
                  Payload(board, push(comparison.board, Head(rest)), Head(rest), move_no,
                          eval_before.eval, comparison.out))

\* lines 35-81: the loop over the mainline from the ply `rest` starts with.
\* run: max_plies, use_llm, llm_mode, the engine's answers a0, a1, a2 to the
\* three analyses of a ply, and the coach's environment env
MainlineLoop(board, rest, move_no, moves_feedback, run) ==
    IF rest = <<>> THEN [raised |-> "none", moves |-> moves_feedback]
    ELSE Evaluated(board, rest, move_no, moves_feedback, run,
                   analyze_position(TRUE, board, run.a0),
                   compare_move(TRUE, board, Head(rest), run.a1, run.a2))

\* analyze_pgn_to_feedback(pgn_content, level, max_plies, use_llm, llm_mode):
\* what it raises and what it returns (None for an unreadable game)
analyze_pgn_to_feedback(pgn_content, run) ==
    LET game == _safe_read_game(pgn_content)
        analyzer == __enter__(run.popen_ok, run.configure_ok)
        loop == MainlineLoop(NewBoard(StartPos), Val(game), 0, <<>>, run)
    IN  IF game = None THEN [raised |-> "none", summary |-> None]
        ELSE IF analyzer.raised # "none" THEN [raised |-> analyzer.raised, summary |-> None]
        ELSE IF loop.raised # "none" THEN [raised |-> loop.raised, summary |-> None]
        ELSE [raised |-> "none", summary |-> Some(Summary(loop.moves))]

(***************************************************************************)
(* live_sessions.py: SessionManager and RedisSessionManager.               *)
(***************************************************************************)
SESSION_TTL == 86400

GameModes == {"play", "training"}
\* the start positions a caller supplies (NoFen: none)
StartFens == {NoFen, STARTING_FEN, AFTER_F3_FEN, MATE_FEN}
Sids == 1..MaxSessions

\* SessionManager._parse_move: UCI first, then SAN
_parse_move(board, move_str) ==
    LET m == IF TextLen(move_str) \in {4, 5} THEN from_uci(move_str) ELSE NoMove
        byUci == IF m # NoMove /\ m \in legal_moves(board.pos) THEN m ELSE NoMove
        move == IF byUci # NoMove THEN byUci ELSE parse_san(board, move_str)
    IN  IF move = NoMove
        THEN [move |-> NoMove, san |-> NoMove, uci |-> NoMove]
        ELSE [move |-> move, san |-> san(board, move), uci |-> move]

\* the test of lines 114 and 337 without its legality half (C1 fails on it)
IsRejected_NoLegalityTest(board, move) == move = NoMove

\* lines 114 and 337: the test that rejects a move
IsRejected(board, move) == move = NoMove \/ move \notin legal_moves(board.pos)

Rejection == [legal |-> FALSE, error |-> "Illegal move"]

\* the reply StockfishAnalyzer.get_engine_move gives for a board: a legal
\* move with its SAN, or no move
get_engine_move(board, reply) ==
    IF reply # NoMove /\ reply \in legal_moves(board.pos)
    THEN [move_uci |-> reply, move_san |-> san(board, reply)]
    ELSE [move_uci |-> NoMove, move_san |-> NoMove]

\* SessionManager._get_engine_move: pushes the engine's move on the session
\* board; `move` is None (NoResult) when the engine gave none
_get_engine_move(sess, reply) ==
    LET response == get_engine_move(sess.board, reply)
        pushed == push(sess.board, response.move_uci)
    IN  IF response.move_uci # NoMove
        THEN [sess |-> [sess EXCEPT !.board = pushed],
              move |-> [san |-> response.move_san, uci |-> response.move_uci,
                        fen_after |-> fen(pushed)]]
        ELSE [sess |-> sess, move |-> NoResult]

\* lines 130-139: cp_before and cp_after of the mover
MoverCp(mover_is_white, eval_before, eval_after, which) ==
    LET b == eval_before.score.cp
        a == eval_after.score.cp
        v == IF which = "before" THEN b ELSE a
    IN  IF b # None /\ a # None
        THEN Some(IF mover_is_white THEN Val(v) ELSE 0 - Val(v))
        ELSE None

\* lines 158-171: the feedback record of a human move
Feedback(sess, parsed, board_after, eval_before, comparison) ==
    [move_no |-> Len(sess.moves) + 1,
     side |-> Side(sess.board.pos.turn),
     san |-> parsed.san,
     uci |-> parsed.uci,
     fen_before |-> fen(sess.board),
     fen_after |-> fen(board_after),
     cp_before |-> MoverCp(sess.board.pos.turn, eval_before, comparison.eval_after, "before"),
     cp_after |-> MoverCp(sess.board.pos.turn, eval_before, comparison.eval_after, "after"),
     cp_loss |-> comparison.eval_loss,
     severity |-> severity_from_cp_loss(comparison.eval_loss),
     best_move_san |-> eval_before.best_move_san,
     multipv |-> eval_before.pv]

\* lines 192-199: the history record of an engine move
EngineFeedback(sess, engine_move) ==
    [move_no |-> Len(sess.moves),
     side |-> IF ~sess.board.pos.turn THEN "white" ELSE "black",
     san |-> engine_move.san,
     uci |-> engine_move.uci,
     fen_after |-> engine_move.fen_after,
     is_engine_move |-> TRUE]

\* lines 158-171 with the results of the analyses at hand: the feedback
\* record before the coaching text is added (no record when an analysis
\* raised)
ApplyMoveDraft(sess, parsed, r0, cmp) ==
    IF r0.raised # "none" \/ cmp.raised # "none" THEN NoResult
    ELSE Feedback(sess, parsed, push(cmp.board, parsed.move), r0.eval, cmp.out)

\* lines 117-182 and 340-405 from the results of the analyses on: r0 and cmp
\* are what analyze_position and compare_move gave, draft the feedback record
ApplyMoveCoach(sess, parsed, engine_ok, r0, cmp, how, draft) ==
    LET pushed == [sess EXCEPT !.board = push(cmp.board, parsed.move)]
    IN  IF ~engine_ok
        THEN [raised |-> "EngineStartError", feedback |-> NoResult, sess |-> sess]
        ELSE IF r0.raised # "none"
        THEN [raised |-> r0.raised, feedback |-> NoResult, sess |-> sess]
        ELSE IF cmp.raised # "none"
        THEN [raised |-> cmp.raised, feedback |-> NoResult,
              sess |-> [sess EXCEPT !.board = cmp.board]]
        ELSE \* the coaching text
             CHOOSE out \in
                {IF coach.raised # "none"
                 THEN [raised |-> coach.raised, feedback |-> NoResult, sess |-> pushed]
                 ELSE [raised |-> "none",
                       feedback |-> [k \in DOMAIN draft \cup {"basic", "extended", "source"} |->
                                        IF k \in DOMAIN draft THEN draft[k]
                                        ELSE coach.value[k]],
                       sess |-> pushed] :
                    coach \in {Await(coach_move_with_llm(draft, TRUE, how))}} : TRUE

\* apply_move on the session object `sess` once the move is accepted, up to
\* the coaching step (lines 117-182 and 340-405): what it raises, the
\* feedback record, and the session object as it is then.  engine_ok: the
\* analysis engine starts; a0, a1, a2: the engine's answers to the three
\* analyses; how: the coaching outcome.
ApplyMoveBody(sess, move_str, engine_ok, a0, a1, a2, how) ==
    CHOOSE out \in
        {ApplyMoveCoach(sess, parsed, engine_ok, r0, cmp, how, draft) :
            parsed \in {_parse_move(sess.board, move_str)},
            r0 \in {analyze_position(TRUE, sess.board, a0)},
            cmp \in {compare_move(TRUE, sess.board, _parse_move(sess.board, move_str).move,
                                  a1, a2)},
            draft \in {ApplyMoveDraft(sess, _parse_move(sess.board, move_str),
                                      analyze_position(TRUE, sess.board, a0),
                                      compare_move(TRUE, sess.board,
                                                   _parse_move(sess.board, move_str).move,
                                                   a1, a2))}} : TRUE

\* lines 184-206 and 407-423: the history gets the human record, then in play
\* mode with the game not over the engine answers (reply "raise": the engine
\* cannot be started or breaks, and the exception leaves apply_move)
Finish(sess, feedback, reply) ==
    LET s1 == [sess EXCEPT !.moves = Append(@, feedback)]
        er == _get_engine_move(s1, reply)
        s2 == er.sess
        human_only == [legal |-> TRUE, human_feedback |-> feedback, engine_move |-> NoResult]
    IN  IF s1.game_mode = "play" /\ ~is_game_over(s1.board.pos)
        THEN IF reply = "raise"
             THEN [raised |-> "EngineStartError", sess |-> s1, ret |-> NoResult]
             ELSE IF er.move # NoResult
             THEN [raised |-> "none",
                   sess |-> [s2 EXCEPT !.moves = Append(@, EngineFeedback(s2, er.move))],
                   ret |-> [legal |-> TRUE, human_feedback |-> feedback,
                            engine_move |-> er.move]]
             ELSE [raised |-> "none", sess |-> s2, ret |-> human_only]
        ELSE [raised |-> "none", sess |-> s1, ret |-> human_only]

\* _serialize_session: a copy of the session dict in which the board is
\* replaced by its FEN, as JSON text (numbers, strings and lists read back
\* from JSON as they were written)
_serialize_session(sess) ==
    IF "board" \in DOMAIN sess
    THEN [k \in (DOMAIN sess \ {"board"}) \cup {"board_fen"} |->
             IF k = "board_fen" THEN fen(sess.board) ELSE sess[k]]
    ELSE sess

\* the caller's dict after _serialize_session: the entry was deleted from the
\* copy that sess.copy() made
AfterSerialize(sess) == sess

\* a reader that drops the move history (C22 fails on it)
_deserialize_session_NoHistory(data) ==
    [k \in (DOMAIN data \ {"board_fen"}) \cup {"board"} |->
        IF k = "board" THEN BoardFromFen(data.board_fen)
        ELSE IF k = "moves" THEN <<>> ELSE data[k]]

\* _deserialize_session: the dict read from the JSON text, with a board built
\* from the FEN in place of it
_deserialize_session(data) ==
    IF "board_fen" \in DOMAIN data
    THEN [k \in (DOMAIN data \ {"board_fen"}) \cup {"board"} |->
             IF k = "board" THEN BoardFromFen(data.board_fen) ELSE data[k]]
    ELSE data

\* the named skill levels and their engine parameters, a skill index and a
\* time per move in milliseconds
SKILL_LEVEL_MAPPINGS ==
    [level \in {"beginner", "intermediate"} |->
        IF level = "beginner" THEN [skill_level |-> 3, move_time_ms |-> 1000]
        ELSE [skill_level |-> 8, move_time_ms |-> 2000]]

\* the session object create builds (lines 40-49 and 281-290); created_at is
\* the reading of the clock
NewSession(sid, skill_level, game_mode, start_fen, created_at) ==
    LET skill_config == IF skill_level \in DOMAIN SKILL_LEVEL_MAPPINGS
                        THEN SKILL_LEVEL_MAPPINGS[skill_level]
                        ELSE SKILL_LEVEL_MAPPINGS["intermediate"]
    IN  [id |-> sid, skill_level |-> skill_level, game_mode |-> game_mode,
         engine_skill_level |-> skill_config.skill_level,
         engine_time_ms |-> skill_config.move_time_ms,
         created_at |-> created_at,
         board |-> IF start_fen # NoFen THEN BoardFromFen(start_fen)
                   ELSE NewBoard(StartPos),
         moves |-> <<>>]

\* _create_session_manager: the shared store when REDIS_URL is set, the redis
\* library is there and the first ping succeeds; the in-memory store otherwise
_create_session_manager(redis_url, redis_available, ping_ok) ==
    IF redis_url /\ redis_available /\ ping_ok THEN "redis" ELSE "memory"

\* a dict or key space with key k bound to v, and without key k
Put(store, k, v) == [x \in DOMAIN store \cup {k} |-> IF x = k THEN v ELSE store[x]]
Drop(store, k) == [x \in DOMAIN store \ {k} |-> store[x]]

VARIABLES
    manager,    \* which session_manager the process built: "memory" or "redis"
    sessions,   \* SessionManager.sessions: session id -> session object
    redis,      \* the shared store: session id -> [value, ttl in seconds]
    issued,     \* how many session ids uuid4 has handed out
    ticks,      \* how many times the clock has advanced
    result,     \* the last call: its name, arguments, outcome, the store
                \* command that failed during it ("none": the backend
                \* answered every command the call issued) and what the
                \* session looked like just before it
    lab,        \* the engine adapter on its own: a board and the last call on it
    config,     \* the environment of a deployment: API_KEY, ENVIRONMENT, REDIS_URL
    workers,    \* worker process -> its session_manager and that manager's dict
    running,    \* worker process -> the apply_move it is in the middle of
    streams,    \* worker process -> the event_gen suspended at a yield
    gone,       \* the ids of the sessions deleted from or expired in the store
    response    \* what the last step of a request handler did and answered

vars == <<manager, sessions, redis, issued, ticks, result, lab,
          config, workers, running, streams, gone, response>>

\* the state of a deployment of worker processes behind the HTTP API
deployment == <<config, workers, running, streams, gone, response>>

Workers == {1, 2}
NoCall == [op |-> "none"]
NoResponse == [endpoint |-> "none", status_code |-> 0, trace |-> <<>>]

\* no deployment: one process, as the sections above describe it
Undeployed ==
    /\ config = [API_KEY |-> None, IS_PRODUCTION |-> FALSE, REDIS_URL |-> FALSE]
    /\ workers = [w \in Workers |-> [manager |-> "memory", sessions |-> <<>>]]
    /\ running = [w \in Workers |-> NoCall]
    /\ streams = [w \in Workers |-> NoCall]
    /\ gone = {}
    /\ response = NoResponse

\* the session `sid` as a caller would see it now
Stored(sid) == IF manager = "memory" THEN sid \in DOMAIN sessions ELSE sid \in DOMAIN redis
Current(sid) == IF manager = "memory" THEN sessions[sid] ELSE _deserialize_session(redis[sid].value)
\* the TTL command of the shared store: -2 for a key that does not exist
Ttl(sid) == IF manager = "redis" /\ sid \in DOMAIN redis THEN redis[sid].ttl ELSE 0 - 2

Pre(sid) ==
    IF Stored(sid)
    THEN [found |-> TRUE, len |-> Len(Current(sid).moves), fen |-> fen(Current(sid).board),
          ttl |-> Ttl(sid)]
    ELSE [found |-> FALSE, len |-> 0, fen |-> NoFen, ttl |-> 0 - 2]

\* the record of a call; `move` is the legal move of the session's position
\* that the move text of an apply_move denotes (NoMove: none)
Call(op, sid, move, raised, ret, failed) ==
    [op |-> op, sid |-> sid, move |-> move, raised |-> raised, ret |-> ret,
     failed |-> failed, pre |-> Pre(sid)]

Denotes(board, move_str) ==
    LET hits == {m \in legal_moves(board.pos) : move_str \in MoveNames(m)}
    IN  IF hits = {} THEN NoMove ELSE CHOOSE m \in hits : TRUE

NoLab == [board |-> NewBoard(StartPos), op |-> "init"]

Init ==
    /\ \E redis_url \in BOOLEAN, ping_ok \in BOOLEAN :
          manager = _create_session_manager(redis_url, TRUE, ping_ok)
    /\ sessions = <<>>
    /\ redis = <<>>
    /\ issued = 0
    /\ ticks = 0
    /\ result = [op |-> "init", sid |-> 0, move |-> NoMove, raised |-> "none", ret |-> NoResult,
                 failed |-> "none",
                 pre |-> [found |-> FALSE, len |-> 0, fen |-> NoFen, ttl |-> 0 - 2]]
    /\ lab = NoLab
    /\ Undeployed

\* SessionManager.get
MemoryGet(dict, sid) ==
    IF sid \in DOMAIN dict
    THEN [raised |-> "none", sess |-> dict[sid]]
    ELSE [raised |-> "KeyError", sess |-> NoResult]

\* a store failure reported as a missing session (C5 fails on it)
OnRedisError_AsNotFound == "KeyError"

\* what get raises when the store's GET command fails (lines 322-324), and
\* when the key is not there (lines 312-313)
OnRedisError == "RedisError"
OnMissingKey == "KeyError"

\* _refresh_ttl that sends no EXPIRE (C3 fails on it)
_refresh_ttl_Skipped(store, sid) == store

\* RedisSessionManager._refresh_ttl: EXPIRE key SESSION_TTL
_refresh_ttl(store, sid) ==
    IF sid \in DOMAIN store THEN [store EXCEPT ![sid].ttl = SESSION_TTL] ELSE store

\* get that answers a missing key with a new stored session (C4 fails on it)
RedisGet_GetOrCreate(store, sid, fail) ==
    LET fresh == NewSession(sid, "intermediate", "play", STARTING_FEN, 0)
    IN  IF fail = "get"
        THEN [raised |-> "RedisError", sess |-> NoResult, store |-> store, failed |-> "get"]
        ELSE IF fail = "expire" /\ sid \in DOMAIN store
        THEN [raised |-> "RedisError", sess |-> NoResult, store |-> store, failed |-> "expire"]
        ELSE IF sid \notin DOMAIN store
        THEN [raised |-> "none", sess |-> fresh,
              store |-> Put(store, sid, [value |-> _serialize_session(fresh), ttl |-> SESSION_TTL]),
              failed |-> "none"]
        ELSE [raised |-> "none", sess |-> _deserialize_session(store[sid].value),
              store |-> [store EXCEPT ![sid].ttl = SESSION_TTL], failed |-> "none"]

\* RedisSessionManager.get; `fail` names the command the backend fails on
RedisGet(store, sid, fail) ==
    IF fail = "get"
    THEN [raised |-> OnRedisError, sess |-> NoResult, store |-> store, failed |-> "get"]
    ELSE IF sid \notin DOMAIN store
    THEN [raised |-> OnMissingKey, sess |-> NoResult, store |-> store, failed |-> "none"]
    ELSE IF fail = "expire"
    THEN [raised |-> OnRedisError, sess |-> NoResult, store |-> store, failed |-> "expire"]
    ELSE [raised |-> "none", sess |-> _deserialize_session(store[sid].value),
          store |-> _refresh_ttl(store, sid), failed |-> "none"]

\* get(sid) of the manager in use
ManagerGet(sid, fail) ==
    IF manager = "memory"
    THEN MemoryGet(sessions, sid) @@ [store |-> redis, failed |-> "none"]
    ELSE RedisGet(redis, sid, fail)

\* SETEX key SESSION_TTL value
Setex(store, sid, sess) ==
    Put(store, sid, [value |-> _serialize_session(sess), ttl |-> SESSION_TTL])

\* what the analysis engine does during one apply_move: whether it starts,
\* and its answers to the analysis of line 123 (a0) and to the two analyses
\* of compare_move (a1 before the move, a2 after it)
EngineRuns(board) ==
    LET best == {Infos(<<[score |-> CpScore(20), pv |-> <<m>>]>>) : m \in legal_moves(board.pos)}
    IN  {[engine_ok |-> FALSE, a0 |-> Raises, a1 |-> Raises, a2 |-> Raises]}
        \cup {[engine_ok |-> TRUE, a0 |-> a, a1 |-> a,
               a2 |-> Infos(<<[score |-> CpScore(0 - 100), pv |-> <<>>]>>)] : a \in best}
        \cup {[engine_ok |-> TRUE, a0 |-> Raises,
               a1 |-> Infos(<<[score |-> CpScore(40), pv |-> <<>>]>>),
               a2 |-> Infos(<<[score |-> MateScore(0 - 1), pv |-> <<>>]>>)]}

\* an identifier generator that hands out the same identifier again (C20
\* fails on it)
uuid4_Repeats(n) == 1

\* uuid.uuid4(): the n identifiers handed out so far are 1..n, and the next
\* one differs from all of them
uuid4(n) == n + 1

\* create(skill_level, game_mode, start_fen); the record of the call keeps the
\* start position the caller supplied.  created_at takes part in no decision
\* of the code; the sessions of a run carry the clock reading 0, and the
\* serialization is exercised with other readings
Create(game_mode, start_fen, fail) ==
    LET sid == uuid4(issued)
        sess == NewSession(sid, "intermediate", game_mode, start_fen, 0)
        info == [session_id |-> sid, fen_start |-> fen(sess.board), game_mode |-> game_mode]
        Made(raised, ret, failed) ==
            Call("create", sid, NoMove, raised, ret, failed) @@ [start_fen |-> start_fen]
    IN  /\ issued < MaxSessions
        /\ issued' = issued + 1
        /\ IF manager = "memory"
           THEN /\ sessions' = Put(sessions, sid, sess)
                /\ redis' = redis
                /\ result' = Made("none", info, "none")
           ELSE IF fail = "setex"
           THEN /\ UNCHANGED <<sessions, redis>>
                /\ result' = Made(OnRedisError, NoResult, "setex")
           ELSE /\ redis' = Setex(redis, sid, sess)
                /\ sessions' = sessions
                /\ result' = Made("none", info, "none")
        /\ UNCHANGED <<deployment, manager, ticks, lab>>

\* get(sid)
Get(sid, fail) ==
    LET g == ManagerGet(sid, fail)
    IN  /\ redis' = g.store
        /\ result' = Call("get", sid, NoMove, g.raised, g.sess, g.failed)
        /\ UNCHANGED <<deployment, manager, sessions, issued, ticks, lab>>

\* snapshot(sid)
Snapshot(sid, fail) ==
    LET g == ManagerGet(sid, fail)
        snap == [session_id |-> sid, game_mode |-> g.sess.game_mode,
                 fen |-> fen(g.sess.board), moves |-> g.sess.moves,
                 is_game_over |-> is_game_over(g.sess.board.pos),
                 turn |-> Side(g.sess.board.pos.turn)]
    IN  /\ redis' = g.store
        /\ result' = Call("snapshot", sid, NoMove, g.raised,
                          IF g.raised = "none" THEN snap ELSE NoResult, g.failed)
        /\ UNCHANGED <<deployment, manager, sessions, issued, ticks, lab>>

\* apply_move(sid, move_str) of the manager in use, from the get to the
\* return; g is what the get gave, b the call up to the coaching step, f the
\* rest of it; setex_ok: the final SETEX of the shared store succeeds
ApplyMove(sid, move_str, fail) ==
    \E g \in {ManagerGet(sid, fail)} :
        LET Leave(raised, ret, sess, persist, failed) ==
                /\ result' = Call("apply_move", sid, Denotes(g.sess.board, move_str),
                                  raised, ret, failed)
                /\ IF manager = "memory"
                   THEN /\ sessions' = Put(sessions, sid, sess)
                        /\ redis' = redis
                   ELSE /\ sessions' = sessions
                        /\ redis' = IF persist THEN Setex(g.store, sid, sess) ELSE g.store
        IN  /\ UNCHANGED <<deployment, manager, issued, ticks, lab>>
            /\ IF g.raised # "none"
               THEN /\ result' = Call("apply_move", sid, NoMove, g.raised, NoResult, g.failed)
                    /\ redis' = g.store
                    /\ sessions' = sessions
               ELSE IF IsRejected(g.sess.board, _parse_move(g.sess.board, move_str).move)
               THEN Leave("none", Rejection, g.sess, FALSE, "none")
               ELSE \E run \in EngineRuns(g.sess.board), how \in CoachOutcomes :
                    \E b \in {ApplyMoveBody(g.sess, move_str, run.engine_ok,
                                             run.a0, run.a1, run.a2, how)} :
                       IF b.raised # "none"
                       THEN Leave(b.raised, NoResult, b.sess, FALSE, "none")
                       ELSE \E reply \in legal_moves(b.sess.board.pos) \cup {NoMove, "raise"},
                               setex_ok \in {TRUE} \cup {manager = "memory"} :
                            \E f \in {Finish(b.sess, b.feedback, reply)} :
                               IF f.raised # "none"
                               THEN Leave(f.raised, NoResult, f.sess, FALSE, "none")
                               ELSE IF ~setex_ok
                               THEN Leave(OnRedisError, NoResult, f.sess, FALSE, "setex")
                               ELSE Leave("none", f.ret, f.sess, TRUE, "none")

\* RedisSessionManager.delete(sid) and exists(sid)
Delete(sid, fail) ==
    /\ manager = "redis"
    /\ IF fail = "delete"
       THEN /\ redis' = redis
            /\ result' = Call("delete", sid, NoMove, OnRedisError, NoResult, "delete")
       ELSE /\ redis' = Drop(redis, sid)
            /\ result' = Call("delete", sid, NoMove, "none", [deleted |-> sid \in DOMAIN redis],
                              "none")
    /\ UNCHANGED <<deployment, manager, sessions, issued, ticks, lab>>

Exists(sid, fail) ==
    /\ manager = "redis"
    /\ result' = IF fail = "exists"
                 THEN Call("exists", sid, NoMove, OnRedisError, NoResult, "exists")
                 ELSE Call("exists", sid, NoMove, "none", [exists |-> sid \in DOMAIN redis],
                           "none")
    /\ UNCHANGED <<deployment, manager, sessions, redis, issued, ticks, lab>>

\* time passes: every key of the shared store loses d seconds and is gone
\* when none are left; the in-memory dict is untouched
Durations == {1, SESSION_TTL - 1}

Tick(d) ==
    LET alive == {k \in DOMAIN redis : redis[k].ttl > d}
    IN  /\ ticks < MaxTicks
        /\ ticks' = IF manager = "redis" THEN ticks + 1 ELSE ticks
        /\ redis' = [k \in alive |-> [redis[k] EXCEPT !.ttl = @ - d]]
        /\ result' = [op |-> "tick", sid |-> 0, move |-> NoMove, raised |-> "none",
                      ret |-> NoResult, failed |-> "none",
                      pre |-> [found |-> FALSE, len |-> 0, fen |-> NoFen, ttl |-> 0 - 2]]
        /\ UNCHANGED <<deployment, manager, sessions, issued, lab>>

\* the commands of the shared store a call may fail on ("none": the backend
\* answers); the in-memory store has no backend to fail
Failures(commands) == IF manager = "redis" THEN {"none"} \cup commands ELSE {"none"}

Next ==
    \/ \E game_mode \in GameModes, start_fen \in StartFens, fail \in Failures({"setex"}) :
          Create(game_mode, start_fen, fail)
    \/ \E sid \in Sids, fail \in Failures({"get", "expire"}) : Get(sid, fail)
    \/ \E sid \in Sids, fail \in Failures({"get", "expire"}) : Snapshot(sid, fail)
    \/ \E sid \in Sids, move_str \in MoveTexts, fail \in Failures({"get", "expire"}) :
          ApplyMove(sid, move_str, fail)
    \/ \E sid \in Sids, fail \in Failures({"delete"}) : Delete(sid, fail)
    \/ \E sid \in Sids, fail \in Failures({"exists"}) : Exists(sid, fail)
    \/ \E d \in Durations : Tick(d)

Spec == Init /\ [][Next]_vars

(***************************************************************************)
(* The engine adapter and the classifier on their own: a board that its    *)
(* caller advances (evaluate_game, lines 256-270), analysed and compared    *)
(* with every answer the engine may give.                                  *)
(***************************************************************************)
AllMoves == WhiteMoves \cup BlackMoves

Scores == {CpScore(0 - 150), CpScore(0), CpScore(35), MateScore(2), MateScore(0 - 1)}

\* principal variations: none, one move (legal or not), two moves
Lines(board) ==
    {<<>>} \cup {<<m>> : m \in AllMoves}
    \cup {<<m, n>> : m \in legal_moves(board.pos), n \in AllMoves}

LabAnswers(board) ==
    {Raises, Malformed, Infos(<<>>)}
    \cup {Infos(<<[score |-> sc, pv |-> pv]>>) : sc \in Scores, pv \in Lines(board)}
    \cup {Infos(<<[score |-> CpScore(35), pv |-> <<m>>], [score |-> sc, pv |-> <<>>]>>) :
            m \in legal_moves(board.pos), sc \in Scores}

CompareAnswers(board) ==
    {Raises, Malformed}
    \cup {Infos(<<[score |-> sc, pv |-> pv]>>) :
            sc \in Scores, pv \in {<<>>} \cup {<<m>> : m \in legal_moves(board.pos)}}

LabPush(m) ==
    /\ m \in legal_moves(lab.board.pos)
    /\ lab' = [board |-> push(lab.board, m), op |-> "push"]
    /\ UNCHANGED <<deployment, manager, sessions, redis, issued, ticks, result>>

\* the caller makes one call on the board it holds, then moves on
AtRest == lab.op \in {"init", "push"}

\* the engine's answer holds a principal variation with a move that board.san
\* cannot render in its place of the line
Unrenderable(board, ans) ==
    /\ ans.kind = "infos"
    /\ \E i \in 1..Len(ans.infos) :
          Len(LineSan(board.pos, ans.infos[i].pv, 1)) < Len(ans.infos[i].pv)

LabAnalyze(engine, ans) ==
    /\ AtRest
    /\ lab' = [board |-> lab.board, op |-> "analyze_position", engine |-> engine,
               answer |-> ans.kind, bad_move |-> Unrenderable(lab.board, ans),
               out |-> analyze_position(engine, lab.board, ans)]
    /\ UNCHANGED <<deployment, manager, sessions, redis, issued, ticks, result>>

LabCompare(engine, m, a1, a2) ==
    LET r == compare_move(engine, lab.board, m, a1, a2)
    IN  /\ AtRest
        /\ m \in legal_moves(lab.board.pos)
        /\ lab' = [board |-> r.board, op |-> "compare_move", engine |-> engine,
                   move |-> m, before |-> lab.board, answers |-> <<a1.kind, a2.kind>>,
                   out |-> r]
        /\ UNCHANGED <<deployment, manager, sessions, redis, issued, ticks, result>>

\* the move payloads handed to the coach: loss, best move and main line
CoachMoves ==
    [san : {"f3"}, cp_loss : {0 - 60, 0, 35, MaxLoss}, best_move_san : {NoMove, "e5"},
     multipv : {<<>>, <<[line_san |-> <<"e5", "g4">>]>>},
     fen_before : {STARTING_FEN}, side : {"white"}]

LabCoach(move, use_llm, env) ==
    /\ AtRest
    /\ lab' = [board |-> lab.board, op |-> "coach_move_with_llm", move |-> move,
               use_llm |-> use_llm, env |-> env,
               out |-> coach_move_with_llm(move, use_llm, env)]
    /\ UNCHANGED <<deployment, manager, sessions, redis, issued, ticks, result>>

\* the PGN texts handed to the pipeline: unreadable, or a game from the
\* initial position whose mainline is a prefix of the fool's mate
Mainline == <<"f2f3", "e7e5", "g2g4", "d8h4">>
PgnTexts ==
    {[readable |-> FALSE, mainline |-> <<>>]}
    \cup {[readable |-> TRUE, mainline |-> SubSeq(Mainline, 1, n)] : n \in 0..Len(Mainline)}

\* the runs of the pipeline: its arguments, whether the engine starts, the
\* engine's answers and the coach's environment
PipelineAnswers == {Raises, Infos(<<[score |-> CpScore(35), pv |-> <<>>]>>)}
PipelineRuns ==
    [max_plies : {None} \cup {Some(n) : n \in 0..MaxPlies},
     use_llm : BOOLEAN, llm_mode : {"all", "critical"},
     popen_ok : BOOLEAN, configure_ok : BOOLEAN,
     a0 : PipelineAnswers, a1 : PipelineAnswers,
     a2 : {Infos(<<[score |-> CpScore(0 - 100), pv |-> <<>>]>>)},
     env : CoachOutcomes]

LabPipeline(pgn_content, run) ==
    /\ lab.op = "init"
    /\ lab' = [board |-> lab.board, op |-> "analyze_pgn_to_feedback",
               pgn_content |-> pgn_content, run |-> run,
               out |-> analyze_pgn_to_feedback(pgn_content, run)]
    /\ UNCHANGED <<deployment, manager, sessions, redis, issued, ticks, result>>

\* the move-feedback lists the summary is computed from: the sides alternate
\* and each severity is the label of the record's loss
SummaryLosses == {0, 35, 100, MaxLoss}
FeedbackLists ==
    UNION {{[i \in 1..n |-> [side |-> Side((i % 2 = 1) = first_white),
                             cp_loss |-> losses[i],
                             severity |-> severity_from_cp_loss(losses[i])]] :
               losses \in [1..n -> SummaryLosses]} :
           n \in 0..MaxPlies, first_white \in BOOLEAN}

LabSummary(moves_feedback) ==
    /\ lab.op = "init"
    /\ lab' = [board |-> lab.board, op |-> "summary", moves_feedback |-> moves_feedback,
               out |-> Summary(moves_feedback)]
    /\ UNCHANGED <<deployment, manager, sessions, redis, issued, ticks, result>>

\* the session objects handed to _serialize_session: what create builds, then
\* the board as moves were pushed on it and the history as records were
\* appended to it
SessionHistories ==
    {<<>>, <<[move_no |-> 1, side |-> "white", san |-> "f3", uci |-> "f2f3",
             cp_loss |-> 35, severity |-> "inaccuracy", multipv |-> <<>>]>>}

LabSerialize(skill_level, game_mode, created_at, moves) ==
    /\ AtRest
    /\ \E sess \in {[NewSession(1, skill_level, game_mode, NoFen, created_at)
                        EXCEPT !.board = lab.board, !.moves = moves]} :
          lab' = [board |-> lab.board, op |-> "_serialize_session", sess |-> sess,
                  data |-> _serialize_session(sess),
                  sess_after |-> AfterSerialize(sess),
                  out |-> _deserialize_session(_serialize_session(sess))]
    /\ UNCHANGED <<deployment, manager, sessions, redis, issued, ticks, result>>

\* one analyzer scope, from the with statement to the end of its block
LabScope(popen_ok, configure_ok, body_raises) ==
    /\ AtRest
    /\ lab' = [board |-> lab.board, op |-> "with_analyzer", popen_ok |-> popen_ok,
               configure_ok |-> configure_ok, body_raises |-> body_raises,
               out |-> WithAnalyzer(popen_ok, configure_ok, body_raises)]
    /\ UNCHANGED <<deployment, manager, sessions, redis, issued, ticks, result>>

\* the engine's answers during one apply_move on the board: a numeric or a
\* mate score on top, with or without a first move
ApplyScores == {CpScore(20), CpScore(0 - 100), MateScore(2)}
ApplyAnswers(board) ==
    {Infos(<<[score |-> sc, pv |-> pv]>>) :
        sc \in ApplyScores, pv \in {<<>>} \cup {<<m>> : m \in legal_moves(board.pos)}}

AfterAnswers == {Infos(<<[score |-> sc, pv |-> <<>>]>>) : sc \in ApplyScores}

\* apply_move on a session whose board is the caller's board, from the
\* accepted move to the coaching step: the feedback record of lines 158-171
\* and what the call raises
LabApplyMove(m, a0, a1, a2, how) ==
    /\ AtRest
    /\ m \in legal_moves(lab.board.pos)
    /\ \E sess \in {[NewSession(1, "intermediate", "training", NoFen, 0)
                        EXCEPT !.board = lab.board]} :
       \E b \in {ApplyMoveBody(sess, m, TRUE, a0, a1, a2, how)} :
          lab' = [board |-> b.sess.board, op |-> "apply_move", before |-> lab.board,
                  move |-> m, answers |-> <<a0, a1, a2>>,
                  draft |-> ApplyMoveDraft(sess, _parse_move(sess.board, m),
                                           analyze_position(TRUE, sess.board, a0),
                                           compare_move(TRUE, sess.board, m, a1, a2)),
                  raised |-> b.raised]
    /\ UNCHANGED <<deployment, manager, sessions, redis, issued, ticks, result>>

\* the moves handed to make_drills: every label of the classifier, either
\* side, no line, a short main line with or without a marker, and lines longer
\* than the drill shows, the marker of the main line past its shown part
LongLine == [i \in 1..(DrillBestMax + 1) |-> IF i = DrillBestMax + 1 THEN "Qh4+" ELSE "e5"]
DrillLines ==
    {<<>>,
     <<[line_san |-> <<"e5", "g4">>]>>,
     <<[line_san |-> <<"e5", "g4", "Qh4#">>], [line_san |-> <<"g4">>]>>,
     <<[line_san |-> <<>>], [line_san |-> <<"Qh4+">>]>>,
     <<[line_san |-> LongLine], [line_san |-> SubSeq(LongLine, 1, DrillAltMax + 1)]>>}
DrillMoves ==
    [san : {"f3"}, cp_loss : {0 - 60, 0, GoodMax, 35, 100, MaxLoss}, best_move_san : {"e5"},
     multipv : DrillLines, fen_before : {STARTING_FEN, AFTER_F3_FEN},
     side : {"white", "black"}]

LabDrills(move) ==
    /\ lab.op = "init"
    /\ lab' = [board |-> lab.board, op |-> "make_drills", move |-> move,
               out |-> make_drills(move)]
    /\ UNCHANGED <<deployment, manager, sessions, redis, issued, ticks, result>>

LabSeverity(x) ==
    /\ AtRest
    /\ lab' = [board |-> lab.board, op |-> "severity", cp_loss |-> x,
               out |-> severity_from_cp_loss(x)]
    /\ UNCHANGED <<deployment, manager, sessions, redis, issued, ticks, result>>

NextLab ==
    \/ \E m \in AllMoves : LabPush(m)
    \/ \E engine \in BOOLEAN, ans \in LabAnswers(lab.board) : LabAnalyze(engine, ans)
    \/ \E engine \in BOOLEAN, m \in AllMoves :
          \E a1 \in CompareAnswers(lab.board), a2 \in CompareAnswers(push(lab.board, m)) :
             LabCompare(engine, m, a1, a2)
    \/ \E x \in (0 - MaxLoss)..MaxLoss : LabSeverity(x)
    \/ \E popen_ok \in BOOLEAN, configure_ok \in BOOLEAN, body_raises \in BOOLEAN :
          LabScope(popen_ok, configure_ok, body_raises)
    \/ \E move \in CoachMoves, use_llm \in BOOLEAN, env \in CoachEnvs :
          LabCoach(move, use_llm, env)
    \/ \E pgn_content \in PgnTexts, run \in PipelineRuns : LabPipeline(pgn_content, run)
    \/ \E moves_feedback \in FeedbackLists : LabSummary(moves_feedback)
    \/ \E skill_level \in {"beginner", "intermediate", "expert"}, game_mode \in GameModes,
          created_at \in 0..MaxTicks, moves \in SessionHistories :
          LabSerialize(skill_level, game_mode, created_at, moves)
    \/ \E move \in DrillMoves : LabDrills(move)
    \/ \E m \in AllMoves, how \in CoachOutcomes :
          \E a0 \in ApplyAnswers(lab.board), a1 \in ApplyAnswers(lab.board),
             a2 \in AfterAnswers : LabApplyMove(m, a0, a1, a2, how)

SpecLab == Init /\ [][NextLab]_vars

(***************************************************************************)
(* api_server.py: the v1 endpoints of a deployment of worker processes.    *)
(* Each worker built its own session_manager when it started; the workers  *)
(* with a RedisSessionManager share the store `redis`.  The store answers  *)
(* every command of these requests.                                        *)
(***************************************************************************)
\* a header value or a key is a text: a sequence of words and single spaces
API_KEY_TEXT == <<"secret">>
Authorizations ==
    {None, Some(<<"Bearer">>),
     Some(<<"Bearer", " ", "secret">>), Some(<<"Bearer", " ", "wrong">>),
     Some(<<"Bearer", " ", " ", "secret", " ">>)}

\* text.startswith("Bearer ")
startswith_Bearer(text) == Len(text) >= 2 /\ text[1] = "Bearer" /\ text[2] = " "

\* text.split(" ", 1)[1]: what follows the first space of a text that has one
AfterFirstSpace(text) ==
    LET i == CHOOSE i \in 1..Len(text) :
                 text[i] = " " /\ \A j \in 1..(i - 1) : text[j] # " "
    IN  SubSeq(text, i + 1, Len(text))

\* text.strip()
strip(text) ==
    LET keep == {i \in 1..Len(text) : text[i] # " "}
        first == CHOOSE i \in keep : \A j \in keep : i <= j
        last == CHOOSE i \in keep : \A j \in keep : j <= i
    IN  IF keep = {} THEN <<>> ELSE SubSeq(text, first, last)

Allowed == [raised |-> "none", status_code |-> 0]
HTTPException(status_code) == [raised |-> "HTTPException", status_code |-> status_code]

\* require_auth that lets every well-formed bearer header pass (C21 fails on it)
require_auth_NoTokenTest(authorization, cfg) ==
    IF cfg.API_KEY = None
    THEN IF cfg.IS_PRODUCTION THEN HTTPException(500) ELSE Allowed
    ELSE IF authorization = None \/ ~startswith_Bearer(Val(authorization))
    THEN HTTPException(401)
    ELSE Allowed

\* require_auth(authorization) in a process whose environment is cfg
require_auth(authorization, cfg) ==
    IF cfg.API_KEY = None \/ cfg.API_KEY = Some(<<>>)
    THEN IF cfg.IS_PRODUCTION THEN HTTPException(500) ELSE Allowed
    ELSE IF authorization = None \/ authorization = Some(<<>>)
            \/ ~startswith_Bearer(Val(authorization))
    THEN HTTPException(401)
    ELSE IF strip(AfterFirstSpace(Val(authorization))) # Val(cfg.API_KEY)
    THEN HTTPException(403)
    ELSE Allowed

\* the environments of a deployment
ApiConfigs ==
    {cfg \in [API_KEY : {None, Some(API_KEY_TEXT)}, IS_PRODUCTION : BOOLEAN,
              REDIS_URL : BOOLEAN] : cfg.API_KEY = None \/ ~cfg.IS_PRODUCTION}

\* the workers start: each builds its session_manager, with the store
\* answering its ping or not
InitApi ==
    /\ manager = "memory"
    /\ sessions = <<>>
    /\ redis = <<>>
    /\ issued = 0
    /\ ticks = 0
    /\ result = [op |-> "init", sid |-> 0, move |-> NoMove, raised |-> "none", ret |-> NoResult,
                 failed |-> "none",
                 pre |-> [found |-> FALSE, len |-> 0, fen |-> NoFen, ttl |-> 0 - 2]]
    /\ lab = NoLab
    /\ config \in ApiConfigs
    /\ \E ping_ok \in [Workers -> BOOLEAN] :
          workers = [w \in Workers |->
                        [manager |-> _create_session_manager(config.REDIS_URL, TRUE, ping_ok[w]),
                         sessions |-> <<>>]]
    /\ running = [w \in Workers |-> NoCall]
    /\ streams = [w \in Workers |-> NoCall]
    /\ gone = {}
    /\ response = NoResponse

\* the single process of the sections above takes no part in a deployment
single == <<manager, sessions, result, lab>>

\* a worker runs one handler at a time up to its next suspension point
Idle(w) == running[w] = NoCall

\* the session `sid` as worker w's session_manager holds it
Held(w, sid) ==
    IF workers[w].manager = "memory" THEN sid \in DOMAIN workers[w].sessions
    ELSE sid \in DOMAIN redis
Seen(w, sid) ==
    IF workers[w].manager = "memory" THEN workers[w].sessions[sid]
    ELSE _deserialize_session(redis[sid].value)
Look(w, sid) ==
    IF Held(w, sid)
    THEN [found |-> TRUE, len |-> Len(Seen(w, sid).moves), fen |-> fen(Seen(w, sid).board)]
    ELSE [found |-> FALSE, len |-> 0, fen |-> NoFen]

\* session_manager.get(sid) of worker w
WorkerGet(w, sid) ==
    IF workers[w].manager = "memory"
    THEN MemoryGet(workers[w].sessions, sid) @@ [store |-> redis, failed |-> "none"]
    ELSE RedisGet(redis, sid, "none")

\* worker w's manager keeps the session object `sess` under sid: the dict of
\* the in-memory manager holds the object itself
Keep(w, sid, sess) ==
    IF workers[w].manager = "memory"
    THEN [workers EXCEPT ![w].sessions = Put(@, sid, sess)]
    ELSE workers

\* the answer of a handler: the status sent (0: none yet) and the calls the
\* handler made on the session manager, the engine and the coach
Answer(endpoint, w, status_code, trace) ==
    [endpoint |-> endpoint, worker |-> w, status_code |-> status_code, trace |-> trace]

\* what a request presented: whether its Authorization header is the word
\* Bearer followed by the configured key
Presented(authorization) ==
    [token |-> /\ config.API_KEY # None
               /\ authorization # None
               /\ SelectSeq(Val(authorization), LAMBDA x : x # " ")
                     = <<"Bearer">> \o Val(config.API_KEY)]

\* require_auth raised: the handler ends there
Rejects(endpoint, w, authorization, auth) ==
    /\ response' = Answer(endpoint, w, auth.status_code, <<>>)
                   @@ Presented(authorization)
    /\ UNCHANGED <<redis, issued, workers, running, streams>>

\* POST /v1/sessions
CreateSession(w, authorization, game_mode) ==
    /\ Idle(w)
    /\ UNCHANGED <<single, config, ticks, gone>>
    /\ \E auth \in {require_auth(authorization, config)} :
          IF auth.raised # "none"
          THEN Rejects("create_session", w, authorization, auth)
          ELSE \E sid \in {uuid4(issued)} :
               \E sess \in {NewSession(sid, "intermediate", game_mode, NoFen, 0)} :
                  /\ issued < MaxApiSessions
                  /\ issued' = issued + 1
                  /\ workers' = Keep(w, sid, sess)
                  /\ redis' = IF workers[w].manager = "memory" THEN redis
                              ELSE Setex(redis, sid, sess)
                  /\ response' = Answer("create_session", w, 200,
                                        <<"session_manager.create">>)
                                 @@ [sid |-> sid, fen_start |-> fen(sess.board)]
                                 @@ Presented(authorization)
                  /\ UNCHANGED <<running, streams>>

\* GET /v1/sessions/{session_id}
GetSession(w, authorization, sid) ==
    /\ Idle(w)
    /\ UNCHANGED <<single, config, ticks, gone, issued, workers, running, streams>>
    /\ \E auth \in {require_auth(authorization, config)} :
          IF auth.raised # "none"
          THEN Rejects("get_session", w, authorization, auth)
          ELSE \E g \in {WorkerGet(w, sid)} :
                  /\ redis' = g.store
                  /\ response' = Answer("get_session", w,
                                        IF g.raised = "KeyError" THEN 404 ELSE 200,
                                        <<"session_manager.snapshot">>)
                                 @@ [sid |-> sid, pre |-> Look(w, sid)]
                                 @@ Presented(authorization)

\* POST /v1/sessions/{session_id}/move, up to the analysis of apply_move: the
\* get, the parsing of the move and the test that rejects it
PlayMove(w, authorization, sid, move_str) ==
    /\ Idle(w)
    /\ UNCHANGED <<single, config, ticks, gone, issued, workers, streams>>
    /\ \E auth \in {require_auth(authorization, config)} :
          IF auth.raised # "none"
          THEN Rejects("play_move", w, authorization, auth)
          ELSE \E g \in {WorkerGet(w, sid)} :
               LET Ends(status_code) ==
                       /\ response' = Answer("play_move", w, status_code,
                                             <<"session_manager.apply_move">>)
                                      @@ [sid |-> sid, pre |-> Look(w, sid), raised |-> "none",
                                          legal |-> FALSE]
                                      @@ Presented(authorization)
                       /\ running' = running
               IN  /\ redis' = g.store
                   /\ IF g.raised = "KeyError" THEN Ends(404)
                      ELSE IF IsRejected(g.sess.board, _parse_move(g.sess.board, move_str).move)
                      THEN Ends(400)
                      ELSE /\ Len(g.sess.board.move_stack) < MaxApiPlies
                           /\ running' = [running EXCEPT ![w] =
                                 [op |-> "apply_move", sid |-> sid, move_str |-> move_str,
                                  sess |-> g.sess,
                                  pre |-> Look(w, sid)]]
                           /\ response' = Answer("play_move", w, 0,
                                                 <<"session_manager.apply_move">>)
                                          @@ [sid |-> sid, pre |-> Look(w, sid),
                                              raised |-> "none", legal |-> FALSE]
                                          @@ Presented(authorization)

\* the rest of that apply_move, from the analysis to the return; an exception
\* that leaves the handler is answered with status 500
PlayMoveRest(w) ==
    /\ running[w].op = "apply_move"
    /\ UNCHANGED <<single, config, ticks, gone, issued, streams>>
    /\ running' = [running EXCEPT ![w] = NoCall]
    /\ \E call \in {running[w]} :
          LET Leave(status_code, raised, sess, persist) ==
                  /\ workers' = Keep(w, call.sid, sess)
                  /\ redis' = IF workers[w].manager = "redis" /\ persist
                              THEN Setex(redis, call.sid, sess) ELSE redis
                  /\ response' = Answer("play_move", w, status_code,
                                        <<"StockfishAnalyzer", "coach_move_with_llm">>)
                                 @@ [sid |-> call.sid, pre |-> call.pre, raised |-> raised,
                                     legal |-> (status_code = 200)]
          IN  \E run \in EngineRuns(call.sess.board), how \in CoachOutcomes :
              \E b \in {ApplyMoveBody(call.sess, call.move_str, run.engine_ok,
                                       run.a0, run.a1, run.a2, how)} :
                 IF b.raised # "none"
                 THEN Leave(500, b.raised, b.sess, FALSE)
                 ELSE \E reply \in legal_moves(b.sess.board.pos) \cup {NoMove, "raise"} :
                      \E f \in {Finish(b.sess, b.feedback, reply)} :
                         IF f.raised # "none"
                         THEN Leave(500, f.raised, f.sess, FALSE)
                         ELSE Leave(200, "none", f.sess, TRUE)

\* one analyzer scope of event_gen (lines 345-347 and 377-380): the analysis
\* of the position and the comparison of the move; `board` is the session's
\* board as the scope leaves it
StreamPhase(board, m, run) ==
    LET r0 == analyze_position(TRUE, board, run.a0)
        cmp == compare_move(TRUE, board, m, run.a1, run.a2)
    IN  IF ~run.engine_ok
        THEN [raised |-> "EngineStartError", board |-> board, eval_before |-> NoResult,
              comparison |-> NoResult]
        ELSE IF r0.raised # "none"
        THEN [raised |-> r0.raised, board |-> board, eval_before |-> NoResult,
              comparison |-> NoResult]
        ELSE IF cmp.raised # "none"
        THEN [raised |-> cmp.raised, board |-> cmp.board, eval_before |-> NoResult,
              comparison |-> NoResult]
        ELSE [raised |-> "none", board |-> cmp.board, eval_before |-> r0.eval,
              comparison |-> cmp.out]

\* event_gen from its resumption after 'basic' to the yield of 'extended'
\* (lines 375-428): sess is the session object the generator holds, st what
\* it kept from its first phase, ph its second analyzer scope
StreamExtended(sess, st, ph, how) ==
    LET board_after == push(ph.board, st.parsed.move)
        full_payload == Feedback([sess EXCEPT !.board = st.board], st.parsed, board_after,
                                 ph.eval_before, ph.comparison)
        coach == Await(coach_move_with_llm(full_payload, TRUE, how))
        updated == [k \in DOMAIN full_payload \cup {"basic", "extended"} |->
                       IF k \in DOMAIN full_payload THEN full_payload[k] ELSE coach.value[k]]
    IN  IF ph.raised # "none"
        THEN [raised |-> ph.raised, sess |-> [sess EXCEPT !.board = ph.board],
              emitted |-> <<>>]
        ELSE IF coach.raised # "none"
        THEN [raised |-> coach.raised, sess |-> [sess EXCEPT !.board = board_after],
              emitted |-> <<>>]
        ELSE [raised |-> "none",
              sess |-> [sess EXCEPT !.board = board_after, !.moves = Append(@, updated)],
              emitted |-> <<"extended">>]

\* event_gen after 'extended' (lines 430-462): in play mode with the game not
\* over the engine replies (reply "raise": the engine cannot be started)
StreamEngineMove(sess, reply) ==
    LET engine_response == get_engine_move(sess.board, reply)
        pushed == [sess EXCEPT !.board = push(@, engine_response.move_uci)]
        engine_move == [san |-> engine_response.move_san, uci |-> engine_response.move_uci,
                        fen_after |-> fen(pushed.board)]
    IN  IF sess.game_mode = "play" /\ ~is_game_over(sess.board.pos)
        THEN IF reply = "raise" \/ sess.skill_level \notin DOMAIN SKILL_LEVEL_MAPPINGS
             THEN [raised |-> IF reply = "raise" THEN "EngineStartError" ELSE "TypeError",
                   sess |-> sess, emitted |-> <<>>]
             ELSE IF engine_response.move_uci # NoMove
             THEN [raised |-> "none",
                   sess |-> [pushed EXCEPT !.moves = Append(@, EngineFeedback(pushed, engine_move))],
                   emitted |-> <<"engine_move">>]
             ELSE [raised |-> "none", sess |-> sess, emitted |-> <<>>]
        ELSE [raised |-> "none", sess |-> sess, emitted |-> <<>>]

\* the answer of a stream: the events sent so far, whether the generator has
\* ended, and what it raised
Stream(w, sid, move, pre, events, finished, raised) ==
    Answer("stream_move", w, 200,
           <<"session_manager.get", "StockfishAnalyzer", "coach_move_with_llm">>)
    @@ [sid |-> sid, move |-> move, pre |-> pre, events |-> events,
        finished |-> finished, raised |-> raised]

\* GET /v1/sessions/{session_id}/stream: require_auth, then event_gen up to
\* its first yield
StreamMove(w, authorization, sid, move_str) ==
    /\ Idle(w)
    /\ streams[w] = NoCall
    /\ UNCHANGED <<single, config, ticks, gone, issued, running>>
    /\ \E auth \in {require_auth(authorization, config)} :
          IF auth.raised # "none"
          THEN Rejects("stream_move", w, authorization, auth)
          ELSE \E g \in {WorkerGet(w, sid)} :
               LET Ends(move, events, raised, sess) ==
                       /\ response' = Stream(w, sid, move, Look(w, sid),
                                             events, TRUE, raised)
                                      @@ Presented(authorization)
                       /\ streams' = streams
                       /\ workers' = IF g.raised = "none" THEN Keep(w, sid, sess) ELSE workers
               IN  /\ redis' = g.store
                   /\ IF g.raised = "KeyError"
                      THEN Ends(NoMove, <<"error">>, "none", NoResult)
                      ELSE \E parsed \in {_parse_move(g.sess.board, move_str)} :
                           IF IsRejected(g.sess.board, parsed.move)
                           THEN Ends(NoMove, <<"error">>, "none", g.sess)
                           ELSE \E run \in EngineRuns(g.sess.board) :
                                \E ph \in {StreamPhase(g.sess.board, parsed.move, run)} :
                                   IF ph.raised # "none"
                                   THEN Ends(parsed.move, <<>>, ph.raised,
                                             [g.sess EXCEPT !.board = ph.board])
                                   ELSE /\ Len(g.sess.board.move_stack) < MaxApiPlies
                                        /\ workers' = Keep(w, sid, [g.sess EXCEPT !.board = ph.board])
                                        /\ streams' = [streams EXCEPT ![w] =
                                              [op |-> "stream_move", sid |-> sid,
                                               parsed |-> parsed, board |-> g.sess.board,
                                               sess |-> [g.sess EXCEPT !.board = ph.board],
                                               pre |-> Look(w, sid), events |-> <<"basic">>]]
                                        /\ response' = Stream(w, sid, parsed.move,
                                                              Look(w, sid), <<"basic">>, FALSE,
                                                              "none")
                                                       @@ Presented(authorization)

\* event_gen resumed after a yield, up to its next yield or its end; the
\* generator of a worker with the in-memory manager holds the session object
\* of the manager's dict, the one of a worker with the shared store a copy
StreamResume(w) ==
    /\ Idle(w)
    /\ streams[w] # NoCall
    /\ UNCHANGED <<single, config, ticks, gone, issued, running, redis>>
    /\ \E st \in {streams[w]} :
       \E sess \in {IF workers[w].manager = "memory" THEN workers[w].sessions[st.sid]
                    ELSE st.sess} :
          LET Goes(out, finished) ==
                  /\ workers' = Keep(w, st.sid, out.sess)
                  /\ streams' = [streams EXCEPT ![w] =
                                    IF finished THEN NoCall
                                    ELSE [st EXCEPT !.sess = out.sess,
                                                    !.events = @ \o out.emitted]]
                  /\ response' = Stream(w, st.sid, st.parsed.move, st.pre,
                                        st.events \o out.emitted, finished, out.raised)
          IN  IF st.events = <<"basic">>
              THEN \E run \in EngineRuns(sess.board), how \in CoachOutcomes :
                   \E ph \in {StreamPhase(sess.board, st.parsed.move, run)} :
                   \E out \in {StreamExtended(sess, st, ph, how)} :
                      Goes(out, out.raised # "none")
              ELSE \E reply \in legal_moves(sess.board.pos) \cup {NoMove, "raise"} :
                   \E out \in {StreamEngineMove(sess, reply)} :
                      Goes(out, TRUE)

\* POST /v1/runs
BatchRuns ==
    {run \in PipelineRuns :
        /\ run.max_plies = None /\ run.use_llm /\ run.llm_mode = "all"
        /\ run.popen_ok /\ run.configure_ok
        /\ run.a0 = run.a1 /\ run.a0 # Raises /\ ~run.env.key}

RunBatchAnalysis(w, authorization, pgn) ==
    /\ Idle(w)
    /\ UNCHANGED <<single, config, ticks, gone, issued, running, streams, redis, workers>>
    /\ \E auth \in {require_auth(authorization, config)} :
          IF auth.raised # "none"
          THEN Rejects("run_batch_analysis", w, authorization, auth)
          ELSE \E run \in BatchRuns :
               \E out \in {analyze_pgn_to_feedback(pgn, run)} :
                  response' = Answer("run_batch_analysis", w,
                                     IF out.raised # "none" THEN 500
                                     ELSE IF out.summary = None THEN 400 ELSE 200,
                                     <<"analyze_pgn_to_feedback">>)
                              @@ [raised |-> out.raised] @@ Presented(authorization)

\* session_manager.delete(sid) called in worker w (RedisSessionManager only)
ManagerDelete(w, sid) ==
    /\ Idle(w)
    /\ workers[w].manager = "redis"
    /\ redis' = Drop(redis, sid)
    /\ gone' = IF sid \in DOMAIN redis THEN gone \cup {sid} ELSE gone
    /\ response' = Answer("delete", w, 0, <<"session_manager.delete">>)
                   @@ [sid |-> sid, deleted |-> sid \in DOMAIN redis]
    /\ UNCHANGED <<single, config, ticks, issued, workers, running, streams>>

\* time passes in the shared store: the keys that have no time left expire
Elapse(d) ==
    LET alive == {k \in DOMAIN redis : redis[k].ttl > d}
    IN  /\ ticks < MaxTicks
        /\ redis # <<>>
        /\ ticks' = ticks + 1
        /\ redis' = [k \in alive |-> [redis[k] EXCEPT !.ttl = @ - d]]
        /\ gone' = gone \cup (DOMAIN redis \ alive)
        /\ response' = Answer("none", 0, 0, <<>>)
        /\ UNCHANGED <<single, config, issued, workers, running, streams>>

ApiSids == 1..MaxApiSessions
ApiMoveTexts == {"g2g4", "zz"}
ApiPgnTexts == {pgn \in PgnTexts : Len(pgn.mainline) = 1 \/ ~pgn.readable}

NextApi ==
    \/ \E w \in Workers, authorization \in Authorizations, game_mode \in GameModes :
          CreateSession(w, authorization, game_mode)
    \/ \E w \in Workers, authorization \in Authorizations, sid \in ApiSids :
          GetSession(w, authorization, sid)
    \/ \E w \in Workers, authorization \in Authorizations, sid \in ApiSids,
          move_str \in ApiMoveTexts : PlayMove(w, authorization, sid, move_str)
    \/ \E w \in Workers : PlayMoveRest(w)
    \/ \E w \in Workers, authorization \in Authorizations, sid \in ApiSids,
          move_str \in ApiMoveTexts : StreamMove(w, authorization, sid, move_str)
    \/ \E w \in Workers : StreamResume(w)
    \/ \E w \in Workers, authorization \in Authorizations, pgn \in ApiPgnTexts :
          RunBatchAnalysis(w, authorization, pgn)
    \/ \E w \in Workers, sid \in ApiSids : ManagerDelete(w, sid)
    \/ \E d \in Durations : Elapse(d)

SpecApi == InitApi /\ [][NextApi]_vars

(***************************************************************************)
(* The engine handles of a deployment.  Every analyzer scope of a handler  *)
(* (`with StockfishAnalyzer(...) as analyzer:`) is followed from popen_uci  *)
(* to quit; the commands the scope sends are synchronous calls of the       *)
(* worker, which runs nothing else until the call returns, while the other  *)
(* workers go on.  running[w] is the scope worker w is in and streams[w]    *)
(* the event_gen it holds suspended at a yield.                             *)
(***************************************************************************)
Engines == 1..MaxEngines

\* a popen_uci that hands out one engine kept for all callers (C35 fails on it)
popen_uci_Pooled(live) == {1}

\* chess.engine.SimpleEngine.popen_uci: a new subprocess at every call, so
\* the handle is none of those that are open
popen_uci(live) == Engines \ live

\* the engines whose handles the workers other than w hold open
OpenElsewhere(w) == {running[v].engine : v \in {u \in Workers \ {w} : running[u] # NoCall}}

\* the handlers that open analyzer scopes
EngineHandlers == {"apply_move", "stream_move", "run_batch_analysis"}

\* the analyses of a scope: analyze_position and the two of compare_move, or
\* the one command of get_engine_move
Commands(scope) == IF scope = "engine_move" THEN 1 ELSE 3

\* the with statement of a scope in worker w: __enter__ starts and
\* configures the engine; when it raises the handler ends there
OpenScope(w, op, scope, popen_ok, configure_ok) ==
    \E e \in {__enter__(popen_ok, configure_ok)} :
       IF e.raised # "none"
       THEN running' = [running EXCEPT ![w] = NoCall]
       ELSE \E engine \in popen_uci(OpenElsewhere(w)) :
               running' = [running EXCEPT ![w] =
                              [op |-> op, scope |-> scope, engine |-> engine,
                               busy |-> FALSE, left |-> Commands(scope)]]

\* a handler reaches its first analyzer scope (live_sessions.py line 122,
\* api_server.py line 345, analysis_pipeline.py line 33)
EnterScope(w, op, popen_ok, configure_ok) ==
    /\ Idle(w)
    /\ op = "stream_move" => streams[w] = NoCall
    /\ OpenScope(w, op, "analysis", popen_ok, configure_ok)
    /\ UNCHANGED <<single, config, ticks, gone, issued, redis, workers, streams, response>>

\* engine.analyse or engine.play is called on the handle of the scope
AnalyseCall(w) ==
    /\ running[w] # NoCall
    /\ ~running[w].busy
    /\ running[w].left > 0
    /\ running' = [running EXCEPT ![w].busy = TRUE]
    /\ UNCHANGED <<single, config, ticks, gone, issued, redis, workers, streams, response>>

\* the call returns (or raises into the handler of line 159)
AnalyseReturn(w) ==
    /\ running[w] # NoCall
    /\ running[w].busy
    /\ running' = [running EXCEPT ![w].busy = FALSE, ![w].left = @ - 1]
    /\ UNCHANGED <<single, config, ticks, gone, issued, redis, workers, streams, response>>

\* the scope ends and __exit__ quits its engine; then the handler goes on to
\* its next suspension point: event_gen yields 'basic' after its first scope
\* (line 373); apply_move and the second scope of event_gen are followed by
\* the await of the coaching call, and only when that returns by the scope of
\* the engine's reply (live_sessions.py line 69, api_server.py line 435); the
\* pipeline's await is inside its scope (analysis_pipeline.py line 70)
ExitScope(w, how, popen_ok, configure_ok) ==
    /\ running[w] # NoCall
    /\ ~running[w].busy
    /\ running[w].left = 0
    /\ UNCHANGED <<single, config, ticks, gone, issued, redis, workers, response>>
    /\ \E call \in {running[w]} :
       \E coach \in {Await(coach_move_with_llm(
                         [san |-> "f3", cp_loss |-> 0, best_move_san |-> NoMove,
                          multipv |-> <<>>, fen_before |-> STARTING_FEN,
                          side |-> "white"], TRUE, how))} :
          IF call.op = "stream_move" /\ streams[w] = NoCall
          THEN /\ running' = [running EXCEPT ![w] = NoCall]
               /\ streams' = [streams EXCEPT ![w] =
                                 [op |-> "stream_move", events |-> <<"basic">>]]
          ELSE /\ streams' = [streams EXCEPT ![w] =
                                 IF call.op = "stream_move" THEN NoCall ELSE @]
               /\ IF call.scope = "engine_move" \/ call.op = "run_batch_analysis"
                     \/ coach.raised # "none"
                  THEN running' = [running EXCEPT ![w] = NoCall]
                  ELSE OpenScope(w, call.op, "engine_move", popen_ok, configure_ok)

\* event_gen resumed after 'basic': its second scope (api_server.py line 377)
ResumeScope(w, popen_ok, configure_ok) ==
    /\ Idle(w)
    /\ streams[w] # NoCall
    /\ OpenScope(w, "stream_move", "analysis", popen_ok, configure_ok)
    /\ UNCHANGED <<single, config, ticks, gone, issued, redis, workers, streams, response>>

NextEngine ==
    \/ \E w \in Workers, op \in EngineHandlers, popen_ok \in BOOLEAN, configure_ok \in BOOLEAN :
          EnterScope(w, op, popen_ok, configure_ok)
    \/ \E w \in Workers : AnalyseCall(w)
    \/ \E w \in Workers : AnalyseReturn(w)
    \/ \E w \in Workers, how \in CoachOutcomes, popen_ok \in BOOLEAN, configure_ok \in BOOLEAN :
          ExitScope(w, how, popen_ok, configure_ok)
    \/ \E w \in Workers, popen_ok \in BOOLEAN, configure_ok \in BOOLEAN :
          ResumeScope(w, popen_ok, configure_ok)

\* a process whose session manager is the in-memory one
InitProcess == Init /\ manager = "memory"

SpecEngine == InitProcess /\ [][NextEngine]_vars

(***************************************************************************)
(* llm_coach.py: the log of one process over its calls of                  *)
(* coach_move_with_llm.  _MISSING_KEY_LOGGED is a global of the module, so *)
(* it lives as long as the process.  `lab` holds the process: the global,  *)
(* the log with the call each line comes from, and the calls made with     *)
(* external text enabled and no credential (unset) and with a credential   *)
(* and a failing external step (failed).                                   *)
(***************************************************************************)
ProcessStart ==
    [_MISSING_KEY_LOGGED |-> FALSE, calls |-> 0, log |-> <<>>, unset |-> {}, failed |-> {},
     returned |-> TRUE]

Process == IF lab.op = "coach_calls" THEN lab.process ELSE ProcessStart

\* _log_missing_key: the warning, unless the process has logged it already
_log_missing_key(logged) ==
    IF logged
    THEN [_MISSING_KEY_LOGGED |-> TRUE, events |-> <<>>]
    ELSE [_MISSING_KEY_LOGGED |-> TRUE, events |-> <<"missing_key">>]

\* the lines a call writes: _log_llm_event writes one line for each event
LogLines(out, logged) ==
    IF out.logged = <<"_log_missing_key">>
    THEN _log_missing_key(logged)
    ELSE [_MISSING_KEY_LOGGED |-> logged, events |-> out.logged]

\* the failures of the external step that end: a request that is never
\* answered holds its call, and the process with it
EndedFailures == ExternalFailures \ {"never_answers"}

\* one call of coach_move_with_llm by the process; a call that raises leaves
\* the process running, a call that never returns holds it
CoachCall(move, use_llm, env) ==
    /\ lab.op \in {"init", "coach_calls"}
    /\ Process.returned
    /\ Process.calls < MaxCalls
    /\ \E out \in {coach_move_with_llm(move, use_llm, env)} :
       \E lines \in {LogLines(out, Process._MISSING_KEY_LOGGED)} :
       \E n \in {Process.calls + 1} :
          lab' = [board |-> lab.board, op |-> "coach_calls", use_llm |-> use_llm,
                  env |-> env, out |-> out,
                  process |->
                     [_MISSING_KEY_LOGGED |-> lines._MISSING_KEY_LOGGED,
                      calls |-> n,
                      log |-> Process.log \o [i \in 1..Len(lines.events) |->
                                                 [call |-> n, event |-> lines.events[i]]],
                      unset |-> Process.unset
                                   \cup (IF use_llm /\ ~env.key THEN {n} ELSE {}),
                      failed |-> Process.failed
                                    \cup (IF use_llm /\ env.key
                                              /\ env.ext.kind \in EndedFailures
                                           THEN {n} ELSE {}),
                      returned |-> out.returned]]
    /\ UNCHANGED <<deployment, manager, sessions, redis, issued, ticks, result>>

\* the moves and the environments of the calls of the process
LoggedMoves == {m \in CoachMoves : m.cp_loss = 0 /\ m.best_move_san = "e5" /\ m.multipv = <<>>}
LoggedEnvs ==
    {e \in CoachEnvs : e.ext.kind \in ExternalFailures \/ e.ext = LlmAnswer(Some(Words(3)), None, <<>>)}

NextCoach ==
    \E move \in LoggedMoves, use_llm \in BOOLEAN, env \in LoggedEnvs :
       CoachCall(move, use_llm, env)

SpecCoach == InitProcess /\ [][NextCoach]_vars

(***************************************************************************)
(* stockfish_engine.py: the node budget of analyze_position.                *)
(***************************************************************************)
DEFAULT_MULTIPV == 5
DEFAULT_NODES_PER_PV == 1000000
DEFAULT_NODES_LIMIT == 500000
MIN_NODES_PER_PV == 10000

max(a, b) == IF a >= b THEN a ELSE b

\* StockfishAnalyzer.__init__: the fields of the analyzer that take part in
\* the budget; multipv and nodes_per_pv are raised to their least values
__init__(nodes_limit, multipv, nodes_per_pv) ==
    [nodes_limit |-> nodes_limit,
     multipv |-> max(1, multipv),
     nodes_per_pv |-> max(MIN_NODES_PER_PV, nodes_per_pv)]

analysis_node_limit_PerLine(self, nodes_limit, multipv, nodes_per_pv) ==
    LET mpv == IF multipv # None THEN Val(multipv) ELSE self.multipv
        npp == IF nodes_per_pv # None THEN Val(nodes_per_pv) ELSE self.nodes_per_pv
    IN  [nodes |-> npp * mpv, multipv |-> mpv]

\* analyze_position up to its call of engine.analyse: the limit and the
\* number of lines handed to the engine; an argument of the call that is
\* None gives way to the field of the analyzer
analysis_node_limit(self, nodes_limit, multipv, nodes_per_pv) ==
    LET mpv == IF multipv # None THEN Val(multipv) ELSE self.multipv
        npp == IF nodes_per_pv # None THEN Val(nodes_per_pv) ELSE self.nodes_per_pv
    IN  [nodes |-> max(npp * mpv, IF nodes_limit # None THEN Val(nodes_limit)
                                  ELSE self.nodes_limit),
         multipv |-> mpv]

\* the analyzers the program builds (defaults, 50 000 nodes per line for the
\* stream, a floor given by evaluate_game) and analyzers below the least
\* values; the arguments of a call, None or a number
InitNodesLimits == {DEFAULT_NODES_LIMIT, 0, 6000000}
InitMultipvs == {DEFAULT_MULTIPV, 0, 1}
InitNodesPerPv == {DEFAULT_NODES_PER_PV, 50000, 5000}
CallNodesLimits == {None, Some(0), Some(100000), Some(6000000)}
CallMultipvs == {None, Some(1), Some(3)}
CallNodesPerPv == {None, Some(1000), Some(2000000)}

\* analyze_position(board, nodes_limit, multipv, nodes_per_pv) on an open
\* analyzer: what it hands to engine.analyse
LabNodes(init, nodes_limit, multipv, nodes_per_pv) ==
    /\ lab.op = "init"
    /\ \E self \in {__init__(init.nodes_limit, init.multipv, init.nodes_per_pv)} :
          lab' = [board |-> lab.board, op |-> "analysis_node_limit", self |-> self,
                  nodes_limit |-> nodes_limit, multipv |-> multipv,
                  nodes_per_pv |-> nodes_per_pv,
                  limit |-> analysis_node_limit(self, nodes_limit, multipv, nodes_per_pv)]
    /\ UNCHANGED <<deployment, manager, sessions, redis, issued, ticks, result>>

NextNodes ==
    \E init \in [nodes_limit : InitNodesLimits, multipv : InitMultipvs,
                  nodes_per_pv : InitNodesPerPv],
       nodes_limit \in CallNodesLimits, multipv \in CallMultipvs,
       nodes_per_pv \in CallNodesPerPv :
       LabNodes(init, nodes_limit, multipv, nodes_per_pv)

SpecNodes == InitProcess /\ [][NextNodes]_vars

(***************************************************************************)
(* Properties.  `result` describes the last call on the session stores and *)
(* `lab` the last call on the engine adapter; the session named by a call  *)
(* is read as a caller would read it after the call.                       *)
(***************************************************************************)
After == Current(result.sid)

\* the call found its session, and the store answered every command
Served(ops) == result.op \in ops /\ result.pre.found /\ result.failed = "none"

\* the call is an apply_move of a move that is legal in the session's
\* position, with the store, the analysis engine and the coach's own code
\* working
Accepted ==
    /\ Served({"apply_move"})
    /\ result.move # NoMove
    /\ result.raised \notin {"EngineStartError", "CoachError"}

\* the board a caller held before the call, restored from its FEN
Before == BoardFromFen(result.pre.fen)

\* C1: for both session stores, apply_move on an existing session with a move
\* text that cannot be parsed or names no legal move of the current position
\* returns the rejection {legal: false, error} without raising, and the
\* session's history length and position are what they were before the call.
C1_IllegalMoveRejected ==
    (Served({"apply_move"}) /\ result.move = NoMove)
    => /\ result.raised = "none"
       /\ result.ret = Rejection
       /\ Stored(result.sid)
       /\ Len(After.moves) = result.pre.len
       /\ fen(After.board) = result.pre.fen

\* C1 happens: a move text is rejected in a session whose position is not
\* the starting position
C1_Witness ==
    /\ result.op = "apply_move"
    /\ result.ret = Rejection
    /\ result.pre.found
    /\ result.pre.fen # STARTING_FEN

\* C2 as stated: in a training session every apply_move of a legal move adds
\* one record to the history a snapshot returns, in call order: the history
\* is one record longer, its last record carries the move, and that record's
\* fen_before is the position the previous record left (the start position
\* for the first).
C2_HistoryFollowsCalls ==
    (Accepted /\ Stored(result.sid) /\ After.game_mode = "training")
    => LET h == After.moves
       IN  /\ Len(h) = result.pre.len + 1
           /\ h[Len(h)].uci = result.move
           /\ h[Len(h)].fen_before = result.pre.fen

C4_AbsentIsNotFound ==
    /\ (result.op \in {"get", "snapshot", "apply_move"} /\ ~result.pre.found
           /\ result.failed = "none")
       => (result.raised = "KeyError" /\ ~Stored(result.sid))
    /\ (DOMAIN sessions \cup DOMAIN redis) \subseteq 1..issued
    /\ manager = "memory" => DOMAIN sessions = 1..issued
    /\ (manager = "memory" /\ result.op = "get" /\ result.sid <= issued)
       => (result.raised = "none" /\ result.ret = sessions[result.sid])

\* C4 happens: apply_move on an id that create issued and that the shared
\* store does not hold once the clock has advanced
C4_Witness ==
    /\ manager = "redis"
    /\ result.op = "apply_move"
    /\ result.raised = "KeyError"
    /\ result.sid <= issued
    /\ ticks > 0
    /\ redis = <<>>

\* C5: a failure of the shared store during create, get, snapshot,
\* apply_move, delete or exists reaches the caller as an error that is not
\* KeyError, and the call returns nothing: no fresh or empty session.
C5_StoreFailureIsDistinct ==
    result.failed # "none"
    => /\ result.raised \notin {"none", "KeyError"}
       /\ result.ret = NoResult
       /\ (result.op = "create" => ~Stored(result.sid))

\* C5 happens: the EXPIRE of a get on an existing session fails
C5_Witness ==
    /\ result.op = "get"
    /\ result.failed = "expire"
    /\ result.pre.found

\* C6 as stated: in a training session every accepted move returns with
\* engine_move null, advances the position by exactly one ply and the
\* history by exactly one record, and no record is flagged is_engine_move.
C6_TrainingOnePlyOneRecord ==
    (Accepted /\ Stored(result.sid) /\ After.game_mode = "training")
    => /\ result.raised = "none"
       /\ result.ret.engine_move = NoResult
       /\ fen(After.board) = fen(push(Before, result.move))
       /\ Len(After.moves) = result.pre.len + 1
       /\ \A i \in 1..Len(After.moves) : "is_engine_move" \notin DOMAIN After.moves[i]

\* C7 as stated: in a play session an accepted human move that leaves the
\* game not over appends the human record and then one record flagged
\* is_engine_move, returns a non-null engine_move and advances the position
\* by two plies; a human move that ends the game appends only the human
\* record and returns engine_move null.
C7_PlayTwoRecords ==
    (Accepted /\ Stored(result.sid) /\ After.game_mode = "play")
    => LET h == After.moves
           mid == push(Before, result.move)
       IN  /\ result.raised = "none"
           /\ IF is_game_over(mid.pos)
              THEN /\ Len(h) = result.pre.len + 1
                   /\ "is_engine_move" \notin DOMAIN h[Len(h)]
                   /\ result.ret.engine_move = NoResult
                   /\ fen(After.board) = fen(mid)
              ELSE /\ Len(h) = result.pre.len + 2
                   /\ "is_engine_move" \notin DOMAIN h[Len(h) - 1]
                   /\ "is_engine_move" \in DOMAIN h[Len(h)]
                   /\ result.ret.engine_move # NoResult
                   /\ \E e \in legal_moves(mid.pos) : fen(After.board) = fen(push(mid, e))

\* C8: compare_move leaves the caller's board as it was: for every board and
\* legal move the FEN after the call is the FEN before it, whatever the
\* engine does on the two analyses (errors included).
C8_CompareKeepsBoard ==
    lab.op = "compare_move" => fen(lab.board) = fen(lab.before)

\* C8 happens: on a board with a move behind it the first analysis answers
\* and the second one raises, and compare_move returns
C8_Witness ==
    /\ lab.op = "compare_move"
    /\ lab.engine
    /\ lab.answers = <<"infos", "raise">>
    /\ lab.out.raised = "none"
    /\ Len(lab.before.move_stack) > 0
    /\ fen(lab.before) # fen(push(lab.before, lab.move))

\* the five categories in order
Rank(category) ==
    CASE category = "best" -> 0
      [] category = "good" -> 1
      [] category = "inaccuracy" -> 2
      [] category = "mistake" -> 3
      [] category = "blunder" -> 4

\* C9: severity_from_cp_loss is monotonic non-decreasing in abs(x) over
\* best < good < inaccuracy < mistake < blunder: for all x, y with
\* abs(x) <= abs(y) the category of x is not worse than that of y; and the
\* category of 0 is "best".
C9_SeverityMonotonic ==
    lab.op = "severity"
    => /\ \A y \in (0 - MaxLoss)..MaxLoss :
             Abs(lab.cp_loss) <= Abs(y)
             => Rank(lab.out) <= Rank(severity_from_cp_loss(y))
       /\ (lab.cp_loss = 0 => lab.out = "best")

\* C9 happens: a negative loss beyond the last threshold is a blunder
C9_Witness ==
    /\ lab.op = "severity"
    /\ lab.cp_loss < 0 - MistakeMax
    /\ lab.out = "blunder"

C11_UnstartedEngineEvaluates ==
    (lab.op = "analyze_position" /\ ~lab.engine)
    => (lab.out.raised = "none" /\ lab.out.eval.pv = <<>>)

\* C12 as stated: when the evaluation before or after the move is unavailable
\* (it carries the error marker), compare_move derives no loss from the zero
\* score that stands in for it.
C12_UnavailableIsNotScored ==
    (lab.op = "compare_move" /\ lab.out.raised = "none"
        /\ ("error" \in DOMAIN lab.out.out.eval_before
            \/ "error" \in DOMAIN lab.out.out.eval_after))
    => lab.out.out.eval_loss = 0

\* C13 as stated: no engine process started by entering an analyzer scope is
\* running once the scope is left, whether the block completed, raised, or
\* the engine could not be configured during start-up.
C13_NoProcessOutlivesScope ==
    lab.op = "with_analyzer" => lab.out.running = 0

\* C14: with external text disabled, or enabled with no credential set,
\* coach_move_with_llm does not raise, sends no request to the external
\* generator, and returns source "rules" with a basic text of one to
\* fifteen words, for every move payload.
C14_RulesWithoutExternal ==
    (lab.op = "coach_move_with_llm" /\ (~lab.use_llm \/ ~lab.env.key))
    => /\ lab.out.raised = "none"
       /\ lab.out.returned
       /\ lab.out.requests = <<>>
       /\ lab.out.value.source = "rules"
       /\ Len(lab.out.value.basic) \in 1..BasicMaxWords

\* C14 witness: external text is enabled, no credential is set, the external
\* client could not have been constructed, and the rules answered.
C14_Witness ==
    /\ lab.op = "coach_move_with_llm"
    /\ lab.use_llm /\ ~lab.env.key /\ lab.env.ext.kind = "client_fails"
    /\ lab.move.cp_loss > GoodMax /\ lab.move.best_move_san # NoMove
    /\ lab.out.value.source = "rules"
    /\ lab.out.value.basic[3] = lab.move.best_move_san

\* C15 as stated: with external text enabled and a credential set, a failure
\* of the external step (the client cannot be set up, the request raises, the
\* answer is no JSON object) never raises: the rule-based result comes back
\* with source "rules".
C15_ExternalFailureRecovered ==
    (lab.op = "coach_move_with_llm" /\ lab.use_llm /\ lab.env.key
        /\ lab.env.ext.kind \in {"import_fails", "client_fails", "request_fails",
                                 "not_object"})
    => (lab.out.raised = "none" /\ lab.out.value.source = "rules")

\* C16 as stated: every request to the external generator carries a timeout
\* of at most LLM_REQUEST_TIMEOUT_SECONDS, the requests of a call together stay
\* within LLM_TOTAL_TIMEOUT_SECONDS, and the call comes back within it
\* with the rule-based result when the service never answers.
C16_ExternalCallBounded ==
    (lab.op = "coach_move_with_llm" /\ lab.out.requests # <<>>)
    => /\ \A i \in 1..Len(lab.out.requests) :
             /\ lab.out.requests[i].timeout # None
             /\ Val(lab.out.requests[i].timeout) <= LLM_REQUEST_TIMEOUT_SECONDS
             /\ Len(lab.out.requests) * Val(lab.out.requests[i].timeout)
                    <= LLM_TOTAL_TIMEOUT_SECONDS
       /\ lab.out.returned
       /\ lab.env.ext.kind = "never_answers" => lab.out.value.source = "rules"

\* the number of records C17 expects for a readable game
Expected(pgn_content, max_plies) ==
    IF max_plies = None \/ Val(max_plies) >= Len(pgn_content.mainline)
    THEN Len(pgn_content.mainline)
    ELSE Val(max_plies)

\* C17 as stated: for a readable game, with the engine started and answering
\* and the coach's client in order, analyze_pgn_to_feedback returns a list
\* with one record per mainline ply in game order, cut to max_plies records
\* when max_plies is given, and the records kept are those of the uncapped run.
C17_OneRecordPerPly ==
    (lab.op = "analyze_pgn_to_feedback" /\ lab.pgn_content.readable
        /\ lab.run.popen_ok /\ lab.run.configure_ok
        /\ lab.run.a0.kind = "infos" /\ lab.run.a1.kind = "infos"
        /\ lab.run.env.ext.kind = "answers")
    => /\ lab.out.raised = "none"
       /\ lab.out.summary # None
       /\ LET moves == Val(lab.out.summary).moves
              uncapped == analyze_pgn_to_feedback(lab.pgn_content,
                                                  [lab.run EXCEPT !.max_plies = None])
          IN  /\ Len(moves) = Expected(lab.pgn_content, lab.run.max_plies)
              /\ \A i \in 1..Len(moves) : moves[i].uci = lab.pgn_content.mainline[i]
              /\ uncapped.raised = "none"
              /\ moves = SubSeq(Val(uncapped.summary).moves, 1, Len(moves))

\* C18: in a summary, critical_positions lists in strictly increasing order
\* the 1-based indices of exactly the records labelled mistake or blunder,
\* and it has as many entries as the four mistake and blunder counts add up to.
C18_CriticalPositions ==
    lab.op = "summary"
    => LET cp == lab.out.critical_positions
           moves == lab.out.moves
       IN  /\ \A i \in 1..(Len(cp) - 1) : cp[i] < cp[i + 1]
           /\ {cp[i] : i \in 1..Len(cp)}
                = {i \in 1..Len(moves) : moves[i].severity \in {"mistake", "blunder"}}
           /\ Len(cp) = lab.out.mistakes_white + lab.out.mistakes_black
                        + lab.out.blunders_white + lab.out.blunders_black

\* C18 witness: a summary of three records whose first is no mistake and whose
\* second and third are a mistake and a blunder, one of each side.
C18_Witness ==
    /\ lab.op = "summary"
    /\ Len(lab.out.moves) = 3
    /\ lab.out.critical_positions = <<2, 3>>
    /\ lab.out.mistakes_black = 1 /\ lab.out.blunders_white = 1

\* the last call was made on a stored session whose position has no legal
\* move, checkmate or stalemate
OnFinished == result.pre.found /\ legal_moves(Before.pos) = {}

\* C19: a session whose game is over stays in storage as it is under every
\* call but delete; with the store answering, get and snapshot succeed on it,
\* snapshot reports is_game_over true, and apply_move answers every move text
\* with the rejection.
C19_FinishedStaysActive ==
    OnFinished
    => /\ result.op # "delete"
          => /\ Stored(result.sid)
             /\ fen(After.board) = result.pre.fen
             /\ Len(After.moves) = result.pre.len
       /\ (result.failed = "none" /\ result.op \in {"get", "snapshot", "apply_move"})
          => result.raised = "none"
       /\ Served({"snapshot"}) => result.ret.is_game_over
       /\ Served({"apply_move"}) => result.ret = Rejection

\* C19 witness: in the shared store, a move text that names a move of the
\* side to move is rejected in a session that was created checkmated and has
\* been read since.
C19_Witness ==
    /\ manager = "redis"
    /\ OnFinished
    /\ Served({"apply_move"})
    /\ result.ret = Rejection
    /\ result.pre.ttl < SESSION_TTL

\* C20: a create that succeeds returns an identifier under which nothing was
\* stored, leaves every stored session as it was, and stores a session whose
\* history is empty and whose position is the returned start position: the
\* one supplied, or the standard initial position when none was supplied.
C20_CreateIsFresh ==
    [][\A new \in Sids :
         (result'.op = "create" /\ issued' = issued + 1 /\ result'.raised = "none"
             /\ result'.sid = new)
         => /\ ~Stored(new)
            /\ result'.ret.session_id = new
            /\ \A s \in Sids :
                  Stored(s) => /\ Stored(s)'
                               /\ Current(s)' = Current(s)
                               /\ Ttl(s)' = Ttl(s)
            /\ Stored(new)'
            /\ Current(new)'.moves = <<>>
            /\ fen(Current(new)'.board) = result'.ret.fen_start
            /\ result'.ret.fen_start = IF result'.start_fen = NoFen THEN STARTING_FEN
                                       ELSE result'.start_fen]_vars

\* C20 witness: a second session has just been created with no start position
\* supplied, next to a first one that holds another position.
C20_Witness ==
    /\ result.op = "create" /\ result.raised = "none"
    /\ result.sid = 2 /\ result.start_fen = NoFen
    /\ Stored(1) /\ Stored(2)
    /\ fen(Current(1).board) # STARTING_FEN
    /\ fen(Current(2).board) = STARTING_FEN

\* the white-relative score c seen from the side that moved in the last
\* compare_move
MoverRelative(c) == IF lab.before.pos.turn THEN c ELSE 0 - c

\* C30: when both evaluations of a compare_move carry a numeric score,
\* eval_loss (in hundredths of a pawn) is the mover-relative score before the
\* move minus the mover-relative score after it, so it is positive exactly
\* when the position got worse for the mover, and for a black mover it is the
\* negation of what a white mover would get from the same two scores.
C30_LossIsMoverRelative ==
    (lab.op = "compare_move" /\ lab.out.raised = "none"
        /\ lab.out.out.eval_before.score.cp # None
        /\ lab.out.out.eval_after.score.cp # None)
    => LET before == Val(lab.out.out.eval_before.score.cp)
           after == Val(lab.out.out.eval_after.score.cp)
           loss == lab.out.out.eval_loss
       IN  /\ loss = MoverRelative(before) - MoverRelative(after)
           /\ loss > 0 <=> MoverRelative(after) < MoverRelative(before)
           /\ ~lab.before.pos.turn => loss = 0 - (before - after)

\* C30 witness: black moved, white's score rose from -150 to 35, and the loss
\* of the mover is positive.
C30_Witness ==
    /\ lab.op = "compare_move" /\ lab.out.raised = "none"
    /\ ~lab.before.pos.turn
    /\ lab.out.out.eval_before.score.cp = Some(0 - 150)
    /\ lab.out.out.eval_after.score.cp = Some(35)
    /\ "error" \notin DOMAIN lab.out.out.eval_after
    /\ lab.out.out.eval_loss = 185

C27_CoachFailureChangesNothing ==
    (/\ Served({"apply_move"})
     /\ result.move # NoMove
     /\ result.raised \in {"CoachError", "TypeError"})
    => /\ Stored(result.sid)
       /\ fen(After.board) = result.pre.fen
       /\ Len(After.moves) = result.pre.len

\* C25 as stated: in every reachable state the history and the position of a
\* session agree: the position is the fen_after of the last record, a call
\* that finds and leaves the history empty leaves the position where it was
\* (the start position, by induction from create), and each record starts
\* from the position its predecessor left.
C25_HistoryMatchesPosition ==
    /\ \A sid \in Sids :
          Stored(sid)
          => LET h == Current(sid).moves
             IN  /\ h # <<>> => fen(Current(sid).board) = h[Len(h)].fen_after
                 /\ \A i \in 2..Len(h) :
                       "fen_before" \in DOMAIN h[i] => h[i].fen_before = h[i - 1].fen_after
    /\ (/\ result.op = "apply_move"
        /\ result.pre.found
        /\ result.pre.len = 0
        /\ Stored(result.sid)
        /\ After.moves = <<>>)
       => fen(After.board) = result.pre.fen

\* the endpoints of the v1 API
Endpoints ==
    {"create_session", "get_session", "play_move", "stream_move", "run_batch_analysis"}

\* the step is a request to an endpoint that presented no bearer token or
\* one that is not the configured key
Unauthenticated ==
    /\ config.API_KEY # None
    /\ response'.endpoint \in Endpoints
    /\ "token" \in DOMAIN response'
    /\ ~response'.token

\* C21: when an API key is configured, a request to create a session, get a
\* session, apply a move, stream a move or batch-analyze a PGN that carries
\* no bearer token or a non-matching one is answered 401 or 403, having made
\* no call on the session manager, the engine or the coach, and the store,
\* every worker's sessions and the calls in progress are what they were.
C21_UnauthenticatedRejected ==
    [][Unauthenticated
       => /\ response'.status_code \in {401, 403}
          /\ response'.trace = <<>>
          /\ UNCHANGED <<redis, workers, running, streams, issued, gone>>]_vars

\* C21 happens: a request with a wrong token is refused with 403 while the
\* session it names is in the store
C21_Witness ==
    /\ config.API_KEY # None
    /\ response.endpoint = "stream_move"
    /\ response.status_code = 403
    /\ ~response.token
    /\ redis # <<>>

C24_SerializedPerSession ==
    /\ \A w1, w2 \in Workers :
          (/\ w1 # w2
           /\ workers[w1].manager = "redis" /\ workers[w2].manager = "redis"
           /\ running[w1].op = "apply_move" /\ running[w2].op = "apply_move")
          => running[w1].sid # running[w2].sid
    /\ (/\ response.endpoint = "play_move"
        /\ response.status_code = 200
        /\ workers[response.worker].manager = "redis"
        /\ response.sid \notin gone)
       => /\ Held(response.worker, response.sid)
          /\ Len(Seen(response.worker, response.sid).moves) > response.pre.len

\* C26 as stated: when REDIS_URL is configured the shared store is the only
\* place sessions live: no worker holds a session in process-local memory,
\* and a session just created through one worker is there for every worker.
C26_SharedStoreOnly ==
    config.REDIS_URL
    => /\ \A w \in Workers : workers[w].sessions = <<>>
       /\ (response.endpoint = "create_session" /\ response.status_code = 200)
          => \A w \in Workers : Held(w, response.sid)

\* C29 as stated: with the engine and the coach's own code working, a stream
\* for an unknown session or an illegal move ends after the single event
\* 'error' with the session as it was; a stream of a legal move sends
\* 'basic', then 'extended', then at most one 'engine_move' (in play mode
\* only) and does not end before 'extended'; the session is as it was when
\* 'basic' has just been sent.
C29_StreamEventOrder ==
    (/\ response.endpoint = "stream_move"
     /\ response.status_code = 200
     /\ response.raised \in {"none", "TypeError"})
    => IF ~response.pre.found \/ response.move = NoMove
       THEN /\ response.events = <<"error">>
            /\ response.finished
            /\ Look(response.worker, response.sid) = response.pre
       ELSE /\ response.events
                 \in {<<"basic">>, <<"basic", "extended">>,
                      <<"basic", "extended", "engine_move">>}
            /\ response.finished => Len(response.events) >= 2
            /\ Len(response.events) = 3
                  => Seen(response.worker, response.sid).game_mode = "play"
            /\ (response.events = <<"basic">> /\ ~response.finished)
                  => Look(response.worker, response.sid) = response.pre

TopIsMate(ans) ==
    ans.kind = "infos" /\ Len(ans.infos) > 0 /\ ans.infos[1].score.mate # None

\* C31: when the top score of the evaluation before or after the move is a
\* mate score, compare_move returns with eval_loss 0, and apply_move returns
\* with a feedback record whose cp_before and cp_after are both null
C31_MateLossNotComputable ==
    /\ (lab.op = "compare_move" /\ lab.engine /\ lab.answers = <<"infos", "infos">>) =>
          /\ lab.out.raised = "none"
          /\ (lab.out.out.eval_before.score.mate # None
               \/ lab.out.out.eval_after.score.mate # None) => lab.out.out.eval_loss = 0
    /\ (lab.op = "apply_move" /\ (TopIsMate(lab.answers[1]) \/ TopIsMate(lab.answers[3]))) =>
          /\ lab.raised = "none"
          /\ lab.draft.cp_before = None
          /\ lab.draft.cp_after = None

\* the mover of the last compare_move is mated by force according to the
\* evaluation `ev` (mate counts are white-relative, negative when white is
\* the side that gets mated)
MoverIsMated(ev) ==
    /\ ev.score.mate # None
    /\ IF lab.before.pos.turn THEN Val(ev.score.mate) < 0 ELSE Val(ev.score.mate) > 0

\* C32: the severity given to the loss of a compared move (as apply_move and
\* the pipeline label it) is 'mistake' or 'blunder' only when both scores are
\* numeric and the mover-relative score after the move is lower than before,
\* and it is not 'best' or 'good' when the mover is mated by force after the
\* move and was not before it (the engine answered both analyses)
C32_SeverityOnlyWhenWorse ==
    (lab.op = "compare_move" /\ lab.out.raised = "none"
        /\ lab.answers = <<"infos", "infos">>) =>
        LET before == lab.out.out.eval_before
            after == lab.out.out.eval_after
            severity == severity_from_cp_loss(lab.out.out.eval_loss)
        IN  /\ severity \in {"mistake", "blunder"} =>
                  /\ before.score.cp # None /\ after.score.cp # None
                  /\ MoverRelative(Val(after.score.cp)) < MoverRelative(Val(before.score.cp))
            /\ (MoverIsMated(after) /\ ~MoverIsMated(before)) =>
                  severity \notin {"best", "good"}

\* C33: in the feedback record apply_move builds for a human move, when
\* cp_before and cp_after are both there, cp_loss (in hundredths of a pawn)
\* is cp_before minus cp_after, and best_move_san and cp_before come from the
\* same evaluation, whatever the engine answers to each analysis
C33_RecordIsCoherent ==
    (lab.op = "apply_move" /\ lab.draft.cp_before # None /\ lab.draft.cp_after # None) =>
        LET ev == analyze_position(TRUE, lab.before, lab.answers[1]).eval
        IN  /\ lab.draft.cp_loss = Val(lab.draft.cp_before) - Val(lab.draft.cp_after)
            /\ lab.draft.best_move_san = ev.best_move_san
            /\ lab.draft.cp_before = Some(MoverRelative(Val(ev.score.cp)))

\* C34: the feedback record of the k-th ply applied to a session's board
\* since the start position has move_no = floor((k - 1) / 2) + 1, the
\* full-move number the two sides' half-moves share
C34_MoveNoIsFullMove ==
    lab.op = "apply_move" =>
        lab.draft.move_no = (Len(lab.before.move_stack) \div 2) + 1

\* the workers that have a command in flight on engine e
InFlight(e) ==
    {w \in Workers : running[w] # NoCall /\ running[w].engine = e /\ running[w].busy}

\* C35: no two workers hold a handle on the same engine, and no engine has
\* more than one analysis call in flight, whatever requests overlap
C35_HandlesNotShared ==
    /\ \A w \in Workers, v \in Workers :
          (w # v /\ running[w] # NoCall /\ running[v] # NoCall)
          => running[w].engine # running[v].engine
    /\ \A e \in Engines : Cardinality(InFlight(e)) <= 1

\* C35 witness: an apply_move of one worker and the second scope of a
\* stream of the other each have an analysis call in flight
C35_Witness ==
    /\ running[1] # NoCall /\ running[1].op = "apply_move" /\ running[1].busy
    /\ running[2] # NoCall /\ running[2].op = "stream_move" /\ running[2].busy
    /\ streams[2] # NoCall

\* line 69 for the first ply of the game the pipeline was given last
FirstPlyEnabled ==
    LET cmp == compare_move(TRUE, NewBoard(StartPos), lab.pgn_content.mainline[1],
                            lab.run.a1, lab.run.a2)
    IN  lab.run.use_llm
        /\ (lab.run.llm_mode = "all"
             \/ severity_from_cp_loss(cmp.out.eval_loss) \in {"mistake", "blunder"})

\* C36: in the batch pipeline the external text generator is attempted for a
\* ply (here: the construction of its client fails, which ends the run) only
\* if use_llm is true and llm_mode is 'all' or the ply is a mistake or a
\* blunder, and a ply for which it is not attempted is returned with source
\* 'rules'
C36_ExternalTextOnlyWhenEnabled ==
    (lab.op = "analyze_pgn_to_feedback" /\ lab.pgn_content.readable
        /\ lab.pgn_content.mainline # <<>> /\ lab.run.max_plies # Some(0)
        /\ lab.run.popen_ok /\ lab.run.configure_ok) =>
        /\ lab.out.raised = "CoachError" => FirstPlyEnabled
        /\ ~FirstPlyEnabled =>
              /\ lab.out.raised = "none"
              /\ Val(lab.out.summary).moves[1].source = "rules"

\* C39: make_drills returns one drill for an inaccuracy, a mistake or a
\* blunder and none for a best or a good move; the drill carries the move's
\* fen_before and side, the first 12 plies at most of the main line and the
\* first 8 at most of the second line, and its objective is the forcing-line
\* one exactly when the main line holds a check or a mate marker
C39_DrillsBySeverity ==
    lab.op = "make_drills" =>
        LET move == lab.move
            lines == move.multipv
            main == IF lines # <<>> THEN lines[1].line_san ELSE <<>>
            second == IF Len(lines) > 1 THEN lines[2].line_san ELSE <<>>
        IN  IF severity_from_cp_loss(move.cp_loss) \in {"best", "good"}
            THEN lab.out = <<>>
            ELSE /\ Len(lab.out) = 1
                 /\ lab.out[1].fen = move.fen_before
                 /\ lab.out[1].side_to_move = move.side
                 /\ Len(lab.out[1].best_line_san) <= 12
                 /\ Len(lab.out[1].alt_traps_san) <= 8
                 /\ \A i \in 1..Len(lab.out[1].best_line_san) :
                       lab.out[1].best_line_san[i] = main[i]
                 /\ \A i \in 1..Len(lab.out[1].alt_traps_san) :
                       lab.out[1].alt_traps_san[i] = second[i]
                 /\ Len(lab.out[1].best_line_san) = 12 \/ lab.out[1].best_line_san = main
                 /\ Len(lab.out[1].alt_traps_san) = 8 \/ lab.out[1].alt_traps_san = second
                 /\ lab.out[1].objective =
                       IF \E i \in 1..Len(main) : main[i] \in Marked
                       THEN "Convert advantage: find forcing line"
                       ELSE "Find the best continuation"

\* C39 witness: a blunder whose main line of 13 plies has its check on the
\* 13th; the drill shows 12 plies and 8 plies and asks for the forcing line
C39_Witness ==
    /\ lab.op = "make_drills"
    /\ severity_from_cp_loss(lab.move.cp_loss) = "blunder"
    /\ Len(lab.move.multipv) = 2 /\ Len(lab.move.multipv[1].line_san) = 13
    /\ lab.move.multipv[1].line_san[13] \in Marked
    /\ Len(lab.out) = 1
    /\ Len(lab.out[1].best_line_san) = 12 /\ Len(lab.out[1].alt_traps_san) = 8
    /\ lab.out[1].objective = "Convert advantage: find forcing line"

\* C37: when the external generator answers with a JSON object,
\* coach_move_with_llm returns source 'llm', a basic text of 1 to 15 words,
\* an extended text of at most 100 words, the rule-based text for a text
\* that is missing or empty, at most two drills bound to the move's
\* fen_before and side, and the rule-based drills when the answer has none
C37_AnswerIsNormalised ==
    (lab.op = "coach_move_with_llm" /\ lab.use_llm /\ lab.env.key
        /\ lab.env.ext.kind = "answers") =>
        /\ lab.out.raised = "none"
        /\ lab.out.value.source = "llm"
        /\ Len(lab.out.value.basic) \in 1..BasicMaxWords
        /\ Len(lab.out.value.extended) <= ExtendedMaxWords
        /\ (lab.env.ext.basic = None \/ lab.env.ext.basic = Some(<<>>))
              => lab.out.value.basic = rule_basic(lab.move)
        /\ (lab.env.ext.extended = None \/ lab.env.ext.extended = Some(<<>>))
              => lab.out.value.extended = rule_extended(lab.move)
        /\ Len(lab.out.value.drills) <= 2
        /\ \A i \in 1..Len(lab.out.value.drills) :
              /\ lab.out.value.drills[i].fen = lab.move.fen_before
              /\ lab.out.value.drills[i].side_to_move = lab.move.side
        /\ lab.env.ext.drills = <<>> => lab.out.value.drills = make_drills(lab.move)

\* the lines of the log of the process that come from call n with event e
LinesOf(n, e) == {i \in DOMAIN Process.log : Process.log[i] = [call |-> n, event |-> e]}

\* C38: over the calls of coach_move_with_llm of one process, the
\* missing-credential warning is logged at most once, by the first call made
\* with external text enabled and no credential, and every call made with a
\* credential whose external step failed logged exactly one fallback warning
C38_LoggedOncePerOccurrence ==
    lab.op = "coach_calls" =>
        /\ \A n \in 1..Process.calls :
              Cardinality(LinesOf(n, "missing_key")) =
                 (IF n \in Process.unset /\ (\A k \in Process.unset : n <= k) THEN 1 ELSE 0)
        /\ \A n \in 1..Process.calls :
              Cardinality(LinesOf(n, "fallback")) = (IF n \in Process.failed THEN 1 ELSE 0)

\* the floor and the per-line budget and number of lines of the last call:
\* the call's argument, or else the analyzer's field
NodesFloor == IF lab.nodes_limit # None THEN Val(lab.nodes_limit) ELSE lab.self.nodes_limit
NodesPerLine == IF lab.nodes_per_pv # None THEN Val(lab.nodes_per_pv) ELSE lab.self.nodes_per_pv
NodesLines == IF lab.multipv # None THEN Val(lab.multipv) ELSE lab.self.multipv

\* C40: the node budget analyze_position hands to the engine is the greater
\* of the per-line budget times the number of requested lines and the floor
\* (the call's nodes_limit, or else the analyzer's): it is never below
\* either, and it is one of the two
C40_NodeBudgetIsMax ==
    lab.op = "analysis_node_limit" =>
        /\ lab.limit.nodes >= NodesFloor
        /\ lab.limit.nodes >= NodesPerLine * NodesLines
        /\ lab.limit.nodes \in {NodesFloor, NodesPerLine * NodesLines}
        /\ lab.limit.multipv = NodesLines

\* a call that overrides the floor of the analyzer with one above the budget
\* of its lines, on an analyzer built with the defaults
C40_Witness ==
    /\ lab.op = "analysis_node_limit"
    /\ lab.self = [nodes_limit |-> DEFAULT_NODES_LIMIT, multipv |-> DEFAULT_MULTIPV,
                   nodes_per_pv |-> DEFAULT_NODES_PER_PV]
    /\ lab.nodes_limit = Some(6000000)
    /\ lab.multipv = None /\ lab.nodes_per_pv = None
    /\ lab.limit.nodes = 6000000
    /\ NodesPerLine * NodesLines = 5000000

====
